---------------------------- MODULE Spec2Model ----------------------------
(***************************************************************************)
(* A model of the jx3-photo-maker annotation editor: the vertical-text     *)
(* encoding, the text annotations and their orientation, the style         *)
(* history, the font registry, the export pipeline and the image loader.   *)
(*                                                                         *)
(* Text is a sequence of UTF-16 code units (one-character strings), which  *)
(* is what String.prototype.split("") cuts a string into.  Line heights    *)
(* are kept in thousandths (1.16 is 1160) so that they stay integers.      *)
(***************************************************************************)
EXTENDS Integers, Sequences, FiniteSets, TLC

VARIABLES
    \* -- vertical-text encoding, applied to drawn inputs
    vsrc,        \* the string handed to toVerticalText
    venc,        \* toVerticalText(vsrc), once computed
    vdec,        \* fromVerticalText(venc), once computed
    vpc,         \* "src" | "enc" | "dec"
    \* -- the annotation engine
    image,       \* editor store: metadata of the loaded image, or NoImage
    objs,        \* canvas.getObjects(): the text annotations, in stacking order
    sel,         \* canvas.getActiveObjects(): the selected positions of objs
    activeObject,      \* the editor store's activeObject, as the positions it stands for
    inherited,   \* style-inheritance store: the style of the next annotation
    rt,          \* observer: the annotation before an orientation round trip
    \* -- the style history
    idHistory,   \* App state: the history, most recent first
    stored,      \* localStorage[HISTORY_STORAGE_KEY], as the list it parses to
    storageThrows, \* whether localStorage.setItem throws in this browser (quota, private mode)
    lastMerge,   \* observer: the incoming list of the merge just made, if any
    histOps,     \* observer: history operations made so far
    \* -- the font registry
    customFontsLoaded, \* font store: the manifest has been read into customFonts
    fontLoadStates,    \* font store: family -> [status, progress]; "idle" is no entry
    cached,            \* Cache Storage: the families whose font file it holds
    initWaiting,       \* initFontStore calls awaiting the manifest
    hookFetch,         \* "pending" | "done": the manifest fetch of useFabricEditor
    eagerRan,          \* the default-font effect ran for customFontsLoaded = true
    restores,          \* family -> [match, parse]: restoreCachedFonts callbacks at each await
    loads,             \* slot -> the loadCustomFont call in flight there, with its caller
    loadingAll,        \* FontSelector state: a load-all is in flight
    fetchStarted,      \* observer: family -> XMLHttpRequests sent
    registered,        \* observer: family -> document.fonts.add calls
    \* -- the canvas: image loads and exports
    backgroundColor,   \* canvas.backgroundColor
    canvasDims,        \* the canvas pixel dimensions
    backgroundImage,   \* canvas.backgroundImage: the file it was made from, 0 for none
    imgLoads,          \* slot -> the loadLocalImage call in flight there
    imgCalls,          \* observer: loadLocalImage calls made
    loadFailed,        \* observer: a loadLocalImage call was rejected
    exports,           \* slot -> the exportImage call in flight there, and how it ended
    exportCalls,       \* observer: exportImage calls made
    downloads,         \* observer: downloads triggered
    \* -- the viewport: zoom and pan
    previewZoom,       \* editor store: previewZoom
    spacePressed,      \* spacePressedRef.current
    spaceHeld,         \* whether the Space key is physically down
    panState,          \* panStateRef.current
    scroll,            \* the container's scrollLeft and scrollTop
    rulerDrag,         \* dragRef.current of the zoom ruler
    zoomAsk,           \* observer: the last value handed to setPreviewZoom
    lastEvent,         \* observer: the last window or container event delivered
    \* -- requests made of the style controls
    strokeAsk,         \* observer: the last call of applyStrokeStyle
    lastAdd,           \* observer: the last call of addText or addTextFromSnapshot
    skipped,           \* observer: the handler whose guard last returned early
    \* -- the editor store's canvas
    canvas,            \* whether the store holds the fabric canvas (null before mount)
    \* -- fitScale and displayScale applied to sizes and a zoom
    scaleIn,           \* container size, image size and previewZoom
    scaleOut,          \* fitScale, displayScale, nextFitScale, nextDisplayScale
    scalePc,           \* "in" | "fit" | "display" | "load"
    \* -- getShadowBlur applied to a width and to the next one
    blurWidth,         \* the stroke width, an integer
    blurSoft,          \* soft: the shadow style; not soft: the hybrid style
    blurOut,           \* getShadowBlur(blurWidth, blurSoft)
    blurNext,          \* getShadowBlur(blurWidth + 1, blurSoft)
    blurPc             \* "in" | "out" | "both"

vertVars == <<vsrc, venc, vdec, vpc>>
textVars == <<image, objs, sel, activeObject, inherited, rt>>
histVars == <<idHistory, stored, storageThrows, lastMerge, histOps>>

fontVars == <<customFontsLoaded, fontLoadStates, cached, initWaiting, hookFetch,
              eagerRan, restores, loads, loadingAll, fetchStarted, registered>>

canvasVars == <<backgroundColor, canvasDims, backgroundImage, imgLoads, imgCalls,
                loadFailed, exports, exportCalls, downloads>>

viewVars == <<previewZoom, spacePressed, spaceHeld, panState, scroll, rulerDrag, zoomAsk, lastEvent>>

askVars == <<strokeAsk, lastAdd, skipped>>

mountVars == <<canvas>>

scaleVars == <<scaleIn, scaleOut, scalePc>>

blurVars == <<blurWidth, blurSoft, blurOut, blurNext, blurPc>>

vars == <<vertVars, textVars, histVars, fontVars, canvasVars, viewVars, askVars, blurVars, mountVars, scaleVars>>

\* what the steps of one component leave alone
notVert == <<textVars, histVars, fontVars, canvasVars, viewVars, askVars, blurVars, mountVars, scaleVars>>
notText == <<vertVars, histVars, fontVars, canvasVars, viewVars, askVars, blurVars, mountVars, scaleVars>>
notHist == <<vertVars, textVars, fontVars, canvasVars, viewVars, askVars, blurVars, mountVars, scaleVars>>
notFont == <<vertVars, textVars, histVars, canvasVars, viewVars, askVars, blurVars, mountVars, scaleVars>>
notCanvas == <<vertVars, histVars, fontVars, viewVars, askVars, blurVars, mountVars, scaleVars>>
notView == <<vertVars, textVars, histVars, fontVars, canvasVars, askVars, blurVars, mountVars, scaleVars>>

---------------------------------------------------------------------------
(* Bounds of the model *)

\* longest string drawn as an input of the encoding
MaxLen == 3

\* most annotations on the canvas at once
MaxObjs == 2

\* annotations on the canvas at one capture, when the canvas is crowded
BlockLen == 40

\* captures, removals and reloads followed from the empty history
MaxHistOps == 6

\* loadCustomFont calls in flight at once
MaxLoads == 2

\* XMLHttpRequests sent, all families together
MaxFetches == 2

\* initFontStore calls: the one at module load and those of FontSelector mounts
MaxInits == 2

\* the image files picked, and the loadLocalImage calls in flight at once
MaxFiles == 2

\* loadLocalImage calls followed
MaxImgCalls == 3

\* the sides of the container and of the image, in pixels, run up to MaxSide
MaxSide == 2

\* exportImage calls in flight at once
MaxExports == 2

\* exportImage calls followed
MaxExportCalls == 3

\* Number.MAX_VALUE on the grid of numbers: the largest finite zoom, in steps of
\* Number.MIN_VALUE
MaxZoom == 20

\* the pointer coordinates and the scroll offsets run over 0..MaxCoord
MaxCoord == 1

---------------------------------------------------------------------------
(* Vertical-text encoding: useFabricEditor.ts 51-57 *)

\* the line break toVerticalText inserts and fromVerticalText removes
LF == "\n"

\* code units a drawn string is made of
Chars == {"A", "B", LF}

RECURSIVE SeqsUpTo(_, _)
SeqsUpTo(S, n) ==
    IF n = 0 THEN {<<>>}
    ELSE LET shorter == SeqsUpTo(S, n - 1)
         IN  shorter \cup {Append(t, c) : t \in {u \in shorter : Len(u) = n - 1}, c \in S}

\* text.split(""): one piece per code unit
SplitChars(text) == [i \in 1..Len(text) |-> <<text[i]>>]

\* parts.join(sep)
RECURSIVE Join(_, _)
Join(parts, sep) ==
    IF Len(parts) = 0 THEN <<>>
    ELSE IF Len(parts) = 1 THEN parts[1]
    ELSE parts[1] \o sep \o Join(Tail(parts), sep)

\* text.replace(/\n/, ""): without the g flag only the first break goes
RECURSIVE RemoveFirstBreak(_)
RemoveFirstBreak(text) ==
    IF Len(text) = 0 THEN <<>>
    ELSE IF Head(text) = LF THEN Tail(text)
    ELSE <<Head(text)>> \o RemoveFirstBreak(Tail(text))

toVerticalText(text) == Join(SplitChars(text), <<LF>>)

fromVerticalText(text) == SelectSeq(text, LAMBDA c : c # LF)

HasBreak(text) == \E i \in 1..Len(text) : text[i] = LF

---------------------------------------------------------------------------
(* Text annotations: useFabricEditor.ts 69-84, 493-575, 577-671, 696-778 *)

\* 1.16, in thousandths
DEFAULT_TEXT_LINE_HEIGHT == 1160

\* 0.2, in thousandths
MIN_TEXT_LINE_HEIGHT == 200

\* the upper limit 10 of getVerticalLineHeight, in thousandths
MAX_TEXT_LINE_HEIGHT == 10000

Min(a, b) == IF a < b THEN a ELSE b
Max(a, b) == IF a > b THEN a ELSE b

clamp(value, min, max) == Min(max, Max(min, value))

\* a line height that ignores the letter spacing
FixedLineHeight(charSpacing) == DEFAULT_TEXT_LINE_HEIGHT

getVerticalLineHeight(charSpacing) ==
    clamp(DEFAULT_TEXT_LINE_HEIGHT + charSpacing, MIN_TEXT_LINE_HEIGHT, MAX_TEXT_LINE_HEIGHT)

NoImage == [id |-> 0]

STROKE_WIDTH_MIN == 1

STROKE_WIDTH_MAX == 32

BASE_TEXT_FONT_SIZE == 100

\* Math.round of a number given in tenths: the nearest integer, halves upwards
Round10(tenths) == (tenths + 5) \div 10

\* normalizeStrokeWidth of a width given in tenths
normalizeStrokeWidth(width) == clamp(Round10(width), STROKE_WIDTH_MIN, STROKE_WIDTH_MAX)

\* the shadow blur without its lower limits 4 and 2
UnflooredShadowBlur(width, soft) ==
    LET safeWidth == normalizeStrokeWidth(width)
    IN  IF soft THEN Round10(32 * safeWidth) ELSE Round10(18 * safeWidth + 10)

\* getShadowBlur of a width given in tenths: 3.2 * w and 1.8 * w + 1, rounded
getShadowBlur(width, soft) ==
    LET safeWidth == normalizeStrokeWidth(width)
    IN  IF soft THEN Max(4, Round10(32 * safeWidth))
        ELSE Max(2, Round10(18 * safeWidth + 10))

\* no stroke colour, no shadow colour
Null == "null"

NoShadow == [set |-> FALSE, color |-> Null, blur |-> 0]

\* buildTextShadow: new Shadow({color, offsetX: 0, offsetY: 0, blur})
buildTextShadow(color, width, soft) ==
    [set |-> TRUE, color |-> color, blur |-> getShadowBlur(width, soft)]

\* a stroke patch that hands the requested width on without rounding or clamping
RawStrokePatch(enabled, style, color, width) ==
    [stroke |-> color, strokeWidth |-> width \div 10, shadow |-> NoShadow,
     paintFirst |-> "stroke"]

\* createStrokePatch, the width in tenths
createStrokePatch(enabled, style, color, width) ==
    LET safeWidth == normalizeStrokeWidth(width)
    IN  IF ~enabled
          THEN [stroke |-> Null, strokeWidth |-> 0, shadow |-> NoShadow]
        ELSE IF style = "outline"
          THEN [stroke |-> color, strokeWidth |-> safeWidth, shadow |-> NoShadow,
                paintFirst |-> "stroke"]
        ELSE IF style = "shadow"
          THEN [stroke |-> Null, strokeWidth |-> 0,
                shadow |-> buildTextShadow(color, 10 * safeWidth, TRUE),
                paintFirst |-> "fill"]
        ELSE [stroke |-> color, strokeWidth |-> Max(1, Round10(6 * safeWidth)),
              shadow |-> buildTextShadow(color, 10 * safeWidth, FALSE),
              paintFirst |-> "stroke"]

\* no preset key: presetKeyMap holds nothing for the object
NoKey == ""

BlurStart ==
    /\ blurWidth \in STROKE_WIDTH_MIN..STROKE_WIDTH_MAX
    /\ blurSoft \in BOOLEAN
    /\ blurOut = 0
    /\ blurNext = 0
    /\ blurPc = "in"

BlurIdle ==
    /\ blurWidth = STROKE_WIDTH_MIN
    /\ blurSoft = FALSE
    /\ blurOut = 0
    /\ blurNext = 0
    /\ blurPc = "in"

\* strings an input field, a preset label or a history entry can hold: no break
TextInputs == {<<>>, <<"A">>, <<"A", "B">>}

\* letter spacings (integers: App.tsx rounds them), one of them below the clamp
SpacingInputs == {-1000, 0, 100}

\* DEFAULT_INHERITED_STYLE; opacity and scales in thousandths
DEFAULT_INHERITED_STYLE ==
    [fontFamily |-> "default", fontSize |-> 100, fontWeight |-> 700, charSpacing |-> 0,
     opacity |-> 1000, vertical |-> TRUE, scaleX |-> 1000, scaleY |-> 1000,
     strokeEnabled |-> TRUE, strokeStyle |-> "outline", strokeColor |-> "#ffffff",
     strokeWidth |-> 14]

\* the snapshot of an annotation made by addText under the default inherited style,
\* with the given content, orientation and letter spacing
Snapshot(text, vertical, charSpacing) ==
    [text |-> text, vertical |-> vertical, fill |-> "#000000", fontFamily |-> "default",
     fontSize |-> 100, scaleX |-> 1000, scaleY |-> 1000, fontWeight |-> 700,
     charSpacing |-> charSpacing, opacity |-> 1000, stroke |-> "#ffffff",
     strokeWidth |-> 14, shadowColor |-> Null, shadowBlur |-> 0,
     paintFirst |-> "stroke", presetKey |-> NoKey]

\* snapshots a capture of some annotation yields, as the style history hands them back
SnapshotInputs ==
    {Snapshot(t, v, c) : t \in TextInputs, v \in BOOLEAN, c \in SpacingInputs}

\* JX3_SCHOOL_PRESETS, the first of its entries
JX3_SCHOOL_PRESETS == {[key |-> "tian-ce", label |-> <<"A", "B">>, color |-> "#EC4B2C"]}

\* String.prototype.toLowerCase on the colours of the model
toLowerCase(color) == IF color = "#EC4B2C" THEN "#ec4b2c" ELSE color

\* fill colours: the default, a preset's colour as listed and in lower case
FillInputs == {"#000000", "#EC4B2C", "#ec4b2c"}

\* no annotation was created yet
NoAdd == [op |-> "none", text |-> <<>>, fill |-> Null, presetKey |-> NoKey,
          vertical |-> FALSE]

\* { ...base, ...patch }
Assign(base, patch) ==
    [k \in DOMAIN base \cup DOMAIN patch |->
        IF k \in DOMAIN patch THEN patch[k] ELSE base[k]]

RtIdle == [stage |-> 0, text |-> <<>>, lineHeight |-> 0]

\* canvas.getActiveObject() when it is an i-text: the single selected annotation, or 0
ActiveText == IF Cardinality(sel) = 1 THEN CHOOSE i \in sel : TRUE ELSE 0

\* App.tsx 515-586: the effect that copies a newly active text into the inherited style
SyncInherited(obj) ==
    LET nextScalePercent ==
            Max(1, (obj.fontSize * (obj.scaleX + obj.scaleY) + 1000) \div 2000)
    IN  Assign(inherited,
               [fontFamily |-> obj.fontFamily, fontSize |-> BASE_TEXT_FONT_SIZE,
                fontWeight |-> obj.fontWeight, charSpacing |-> obj.charSpacing,
                opacity |-> obj.opacity, vertical |-> obj.vertical,
                scaleX |-> 10 * nextScalePercent, scaleY |-> 10 * nextScalePercent])

TextStart ==
    /\ image = [id |-> 1]
    /\ objs = <<>>
    /\ sel = {}
    /\ activeObject = {}
    /\ inherited = DEFAULT_INHERITED_STYLE
    /\ rt = RtIdle

TextIdle ==
    /\ image = NoImage
    /\ objs = <<>>
    /\ sel = {}
    /\ activeObject = {}
    /\ inherited = DEFAULT_INHERITED_STYLE
    /\ rt = RtIdle

\* a handler returns at its guard: nothing is touched
Skip(op) ==
    /\ skipped' = op
    /\ UNCHANGED <<vertVars, textVars, histVars, fontVars, canvasVars, viewVars,
                   strokeAsk, lastAdd, blurVars, mountVars, scaleVars>>

\* a guard that lets every call through
AlwaysReady == TRUE

\* the negation of "!canvas || !image"
HasCanvasAndImage == canvas /\ image # NoImage

\* canvas is set and canvas.getActiveObject() is an editable text
HasActiveText == canvas /\ ActiveText # 0

\* a style read that ignores what the store holds
HardDefaults == DEFAULT_INHERITED_STYLE

\* the inherited style with the stroke fields of DEFAULT_INHERITED_STYLE
DefaultStroke ==
    Assign(inherited,
           [strokeEnabled |-> DEFAULT_INHERITED_STYLE.strokeEnabled,
            strokeStyle |-> DEFAULT_INHERITED_STYLE.strokeStyle,
            strokeColor |-> DEFAULT_INHERITED_STYLE.strokeColor,
            strokeWidth |-> DEFAULT_INHERITED_STYLE.strokeWidth])

\* useStyleInheritanceStore.getState().getInheritedStyle()
getInheritedStyle == inherited

\* the IText addText builds from the inherited style
NewText(text, color, presetKey) ==
    LET inheritedStyle == getInheritedStyle
        strokeWidth == normalizeStrokeWidth(10 * inheritedStyle.strokeWidth)
        stroked == inheritedStyle.strokeEnabled /\ inheritedStyle.strokeStyle \in {"outline", "hybrid"}
    IN
    [text        |-> IF inheritedStyle.vertical THEN toVerticalText(text) ELSE text,
     vertical    |-> inheritedStyle.vertical,
     charSpacing |-> inheritedStyle.charSpacing,
     lineHeight  |-> IF inheritedStyle.vertical
                       THEN getVerticalLineHeight(inheritedStyle.charSpacing)
                       ELSE DEFAULT_TEXT_LINE_HEIGHT,
     textAlign   |-> IF inheritedStyle.vertical THEN "center" ELSE "left",
     fill        |-> color,
     fontFamily  |-> inheritedStyle.fontFamily,
     fontSize    |-> BASE_TEXT_FONT_SIZE,
     fontWeight  |-> inheritedStyle.fontWeight,
     opacity     |-> inheritedStyle.opacity,
     scaleX      |-> inheritedStyle.scaleX,
     scaleY      |-> inheritedStyle.scaleY,
     stroke      |-> IF stroked THEN inheritedStyle.strokeColor ELSE Null,
     strokeWidth |-> IF stroked
                       THEN IF inheritedStyle.strokeStyle = "hybrid"
                              THEN Max(1, Round10(6 * strokeWidth))
                              ELSE strokeWidth
                       ELSE 0,
     shadow      |-> IF inheritedStyle.strokeEnabled /\ inheritedStyle.strokeStyle = "shadow"
                       THEN [set |-> TRUE, color |-> inheritedStyle.strokeColor,
                             blur |-> getShadowBlur(10 * strokeWidth, TRUE)]
                     ELSE IF inheritedStyle.strokeEnabled /\ inheritedStyle.strokeStyle = "hybrid"
                       THEN [set |-> TRUE, color |-> inheritedStyle.strokeColor,
                             blur |-> getShadowBlur(10 * strokeWidth, FALSE)]
                     ELSE NoShadow,
     paintFirst  |-> IF stroked THEN "stroke" ELSE "fill",
     presetKey   |-> presetKey]

addText(text, color, presetKey) ==
  IF ~HasCanvasAndImage THEN Skip("addText") ELSE
    /\ Len(objs) < MaxObjs
    /\ LET it == NewText(text, color, presetKey)
       IN  /\ objs' = Append(objs, it)
           /\ sel' = {Len(objs) + 1}
           /\ activeObject' = {Len(objs) + 1}
           /\ inherited' = SyncInherited(it)
    /\ rt' = RtIdle
    /\ lastAdd' = [op |-> "addText", text |-> text, fill |-> color,
                   presetKey |-> presetKey, vertical |-> inherited.vertical]
    /\ UNCHANGED <<image, vertVars, histVars, fontVars, canvasVars, viewVars, strokeAsk,
                   skipped, blurVars, mountVars, scaleVars>>

\* an IText that takes content, fill and preset key from the snapshot and the rest
\* from the inherited style
InheritedTextFrom(snapshot) == NewText(snapshot.text, snapshot.fill, snapshot.presetKey)

\* the IText addTextFromSnapshot builds: no lineHeight is passed, so the object
\* keeps the library's default line height, 1.16, whatever the letter spacing
TextFromSnapshot(snapshot) ==
    [text        |-> IF snapshot.vertical THEN toVerticalText(snapshot.text) ELSE snapshot.text,
     vertical    |-> snapshot.vertical,
     charSpacing |-> snapshot.charSpacing,
     lineHeight  |-> DEFAULT_TEXT_LINE_HEIGHT,
     textAlign   |-> IF snapshot.vertical THEN "center" ELSE "left",
     fill        |-> snapshot.fill,
     fontFamily  |-> snapshot.fontFamily,
     fontSize    |-> snapshot.fontSize,
     fontWeight  |-> snapshot.fontWeight,
     opacity     |-> snapshot.opacity,
     scaleX      |-> snapshot.scaleX,
     scaleY      |-> snapshot.scaleY,
     stroke      |-> snapshot.stroke,
     strokeWidth |-> clamp(snapshot.strokeWidth, 0, STROKE_WIDTH_MAX),
     shadow      |-> IF snapshot.shadowColor \notin {Null, ""} /\ snapshot.shadowBlur > 0
                       THEN [set |-> TRUE, color |-> snapshot.shadowColor,
                             blur |-> snapshot.shadowBlur]
                       ELSE NoShadow,
     paintFirst  |-> snapshot.paintFirst,
     presetKey   |-> snapshot.presetKey]

addTextFromSnapshot(snapshot) ==
  IF ~HasCanvasAndImage THEN Skip("addTextFromSnapshot") ELSE
    /\ Len(objs) < MaxObjs
    /\ LET textObject == TextFromSnapshot(snapshot)
       IN  /\ objs' = Append(objs, textObject)
           /\ sel' = {Len(objs) + 1}
           /\ activeObject' = {Len(objs) + 1}
           /\ inherited' = SyncInherited(textObject)
    /\ rt' = RtIdle
    /\ lastAdd' = [op |-> "addTextFromSnapshot", text |-> snapshot.text,
                   fill |-> snapshot.fill, presetKey |-> snapshot.presetKey,
                   vertical |-> snapshot.vertical, snapshot |-> snapshot]
    /\ UNCHANGED <<image, vertVars, histVars, fontVars, canvasVars, viewVars, strokeAsk,
                   skipped, blurVars, mountVars, scaleVars>>

readSnapshotFromText(obj) ==
    [text        |-> IF obj.vertical THEN fromVerticalText(obj.text) ELSE obj.text,
     vertical    |-> obj.vertical,
     fill        |-> obj.fill,
     fontFamily  |-> obj.fontFamily,
     fontSize    |-> Max(1, obj.fontSize),
     scaleX      |-> obj.scaleX,
     scaleY      |-> obj.scaleY,
     fontWeight  |-> obj.fontWeight,
     charSpacing |-> obj.charSpacing,
     opacity     |-> obj.opacity,
     stroke      |-> obj.stroke,
     strokeWidth |-> clamp(obj.strokeWidth, 0, STROKE_WIDTH_MAX),
     shadowColor |-> IF obj.shadow.set THEN obj.shadow.color ELSE Null,
     shadowBlur  |-> IF obj.shadow.set THEN Max(0, obj.shadow.blur) ELSE 0,
     paintFirst  |-> IF obj.paintFirst = "fill" THEN "fill" ELSE "stroke",
     presetKey   |-> obj.presetKey]

\* the rewriting without the preset lookup
UntaggedPatch(obj, patch) ==
    LET p1 == IF "text" \in DOMAIN patch /\ obj.vertical
                THEN Assign(patch, [text |-> toVerticalText(patch.text)])
                ELSE patch
    IN  IF "charSpacing" \in DOMAIN p1 /\ obj.vertical
          THEN Assign(p1, [lineHeight |-> getVerticalLineHeight(p1.charSpacing)])
          ELSE p1

\* the patch as applyToActiveText rewrites it for the object it is applied to
EffectivePatch(obj, patch) ==
    LET p1 == IF "text" \in DOMAIN patch /\ obj.vertical
                THEN Assign(patch, [text |-> toVerticalText(patch.text)])
                ELSE patch
        p2 == IF "charSpacing" \in DOMAIN p1 /\ obj.vertical
                THEN Assign(p1, [lineHeight |-> getVerticalLineHeight(p1.charSpacing)])
                ELSE p1
        matched == IF "fill" \in DOMAIN patch
                     THEN {q \in JX3_SCHOOL_PRESETS :
                              toLowerCase(q.color) = toLowerCase(patch.fill)}
                     ELSE {}
    IN  IF matched # {}
          THEN Assign(p2, [presetKey |-> (CHOOSE q \in matched : TRUE).key])
          ELSE p2

\* the followed fields without the vertical scale
InheritedButScaleY(patch) ==
    [k \in DOMAIN patch \cap {"fontFamily", "fontSize", "fontWeight", "charSpacing",
                                "opacity", "scaleX"} |-> patch[k]]

\* the fields of a patch that the inherited style follows
InheritedPart(patch) ==
    [k \in DOMAIN patch \cap {"fontFamily", "fontSize", "fontWeight", "charSpacing",
                                "opacity", "scaleX", "scaleY"} |-> patch[k]]

\* a patch set on every annotation of the canvas instead of the active one
PatchEvery(patch) ==
  IF ~HasActiveText THEN Skip("applyToActiveText") ELSE
    /\ objs' = [i \in 1..Len(objs) |-> Assign(objs[i], patch)]
    /\ inherited' = Assign(inherited, InheritedPart(patch))
    /\ rt' = RtIdle
    /\ UNCHANGED <<image, sel, activeObject, notText>>

applyToActiveText(patch) ==
  IF ~HasActiveText THEN Skip("applyToActiveText") ELSE
    /\ LET a == ActiveText
       IN  objs' = [objs EXCEPT ![a] = Assign(@, EffectivePatch(@, patch))]
    /\ inherited' = Assign(inherited, InheritedPart(patch))
    /\ rt' = RtIdle
    /\ UNCHANGED <<image, sel, activeObject, notText>>

ApplyText == \E t \in TextInputs : applyToActiveText([text |-> t])

ApplyCharSpacing == \E c \in SpacingInputs : applyToActiveText([charSpacing |-> c])

setActiveTextVertical(vertical) ==
  IF ~HasActiveText \/ vertical = objs[ActiveText].vertical
    THEN Skip("setActiveTextVertical") ELSE
    /\ LET a    == ActiveText
           obj  == objs[a]
           flat == fromVerticalText(obj.text)
       IN  /\ objs' = [objs EXCEPT ![a] =
                 Assign(@, [vertical   |-> vertical,
                            text       |-> IF vertical THEN toVerticalText(flat) ELSE flat,
                            textAlign  |-> IF vertical THEN "center" ELSE "left",
                            lineHeight |-> IF vertical
                                             THEN getVerticalLineHeight(obj.charSpacing)
                                             ELSE DEFAULT_TEXT_LINE_HEIGHT])]
           /\ rt' = IF ~vertical
                      THEN [stage |-> 1, text |-> obj.text, lineHeight |-> obj.lineHeight]
                      ELSE IF rt.stage = 1 THEN [rt EXCEPT !.stage = 2] ELSE RtIdle
    /\ inherited' = Assign(inherited, [vertical |-> vertical])
    /\ UNCHANGED <<image, sel, activeObject, notText>>

\* a text:changed event whose handler would leave the edited content as it is
TextChangedUnhandled(currentText) ==
    /\ HasActiveText
    /\ objs' = [objs EXCEPT ![ActiveText].text = currentText]
    /\ rt' = RtIdle
    /\ UNCHANGED <<image, sel, activeObject, inherited, notText>>

\* text:changed on the active annotation, whose content the edit has made currentText:
\* handleTextChanged puts the content of a vertical annotation back into vertical form
handleTextChanged(currentText) ==
    /\ HasActiveText
    /\ LET candidate      == objs[ActiveText]
           normalizedText == toVerticalText(fromVerticalText(currentText))
       IN  objs' = [objs EXCEPT ![ActiveText].text =
                      IF ~candidate.vertical \/ normalizedText = currentText
                        THEN currentText
                        ELSE normalizedText]
    /\ rt' = RtIdle
    /\ UNCHANGED <<image, sel, activeObject, inherited, notText>>

\* a removal that takes every annotation with it, as canvas.clear() would
WithoutAny(seq, drop, i) == <<>>

\* the objects of seq from position i on, those at the positions of drop removed
RECURSIVE Without(_, _, _)
Without(seq, drop, i) ==
    IF i > Len(seq) THEN <<>>
    ELSE (IF i \in drop THEN <<>> ELSE <<seq[i]>>) \o Without(seq, drop, i + 1)

deleteActiveObject ==
  IF ~canvas \/ sel = {} THEN Skip("deleteActiveObject") ELSE
    /\ objs' = Without(objs, sel, 1)
    /\ sel' = {}
    /\ activeObject' = {}
    /\ rt' = RtIdle
    /\ UNCHANGED <<image, inherited, notText>>

\* onKeyDown with Delete or Backspace outside a typing target; isEditing: the only
\* selected annotation is being edited in place
onKeyDownDelete(isEditing) ==
  IF ~canvas \/ sel = {} \/ (Cardinality(sel) = 1 /\ isEditing)
    THEN Skip("onKeyDownDelete") ELSE
    /\ objs' = Without(objs, sel, 1)
    /\ sel' = {}
    /\ activeObject' = {}
    /\ rt' = RtIdle
    /\ UNCHANGED <<image, inherited, notText>>

\* the user picks annotations on the canvas: selection:created / selection:updated,
\* followed by the effect of App.tsx 515-586 when a single text became active
selectObjects ==
    \E S \in (SUBSET (1..Len(objs))) \ {{}, sel} :
        /\ sel' = S
        /\ activeObject' = S
        /\ inherited' = IF Cardinality(S) = 1
                          THEN SyncInherited(objs[CHOOSE i \in S : TRUE])
                          ELSE inherited
        /\ rt' = RtIdle
        /\ UNCHANGED <<image, objs, notText>>

\* a canvas whose selection:cleared event would not reach the store
ClearedOnCanvasOnly ==
    /\ sel # {}
    /\ sel' = {}
    /\ rt' = RtIdle
    /\ UNCHANGED <<image, objs, activeObject, inherited, notText>>

\* the user clicks the empty canvas: selection:cleared
clearSelection ==
    /\ sel # {}
    /\ sel' = {}
    /\ activeObject' = {}
    /\ rt' = RtIdle
    /\ UNCHANGED <<image, objs, inherited, notText>>

AddText == \E t \in TextInputs : addText(t, "#000000", NoKey)

\* requested stroke widths, in tenths: below, at and between the limits, and halves
WidthInputs == {-10, 4, 15, 100, 325}

StrokeStyles == {"outline", "shadow", "hybrid"}

AskIdle ==
    /\ strokeAsk = [tick |-> FALSE, enabled |-> FALSE, style |-> "outline",
                    color |-> Null, width |-> 0]
    /\ lastAdd = NoAdd
    /\ skipped = "none"

\* the effect of useFabricEditor.ts 160-200 has run: the store holds the canvas
Mounted == canvas = TRUE

\* App.tsx applyStrokeStyle: the patch goes to the active text, if there is one, and
\* the request is kept in the inherited style
applyStrokeStyle(enabled, style, color, width) ==
    LET safeWidth == normalizeStrokeWidth(width)
        patch == createStrokePatch(enabled, style, color, 10 * safeWidth)
    IN  /\ objs' = IF ~HasActiveText THEN objs
                   ELSE [objs EXCEPT ![ActiveText] = Assign(@, EffectivePatch(@, patch))]
        /\ inherited' = Assign(inherited,
                               [strokeEnabled |-> enabled, strokeStyle |-> style,
                                strokeColor |-> color, strokeWidth |-> safeWidth])
        /\ rt' = RtIdle
        /\ strokeAsk' = [tick |-> ~strokeAsk.tick, enabled |-> enabled, style |-> style,
                         color |-> color, width |-> width]
        /\ UNCHANGED <<image, sel, activeObject, vertVars, histVars, fontVars, canvasVars, viewVars,
                       lastAdd, skipped, blurVars, mountVars, scaleVars>>

AddTextFromSnapshot == \E s \in SnapshotInputs : addTextFromSnapshot(s)

SetActiveTextVertical == \E v \in BOOLEAN : setActiveTextVertical(v)

---------------------------------------------------------------------------
(* Style history: App.tsx 337-375, 460-468, 606-628 *)

\* the length mergeUniqueSnapshots cuts the history to
HISTORY_LIMIT == 40

\* the n-th of the distinct snapshots captured: they differ in letter spacing
Snap(n) == Snapshot(<<"A">>, TRUE, n)

\* the same style captured from an annotation that carries a preset key
PresetSnap(n) == Assign(Snap(n), [presetKey |-> "tian-ce"])

\* the key lists the style fields, and not presetKey
buildSnapshotKey(snapshot) ==
    <<snapshot.text, snapshot.vertical, snapshot.fill, snapshot.fontFamily,
      snapshot.fontSize, snapshot.scaleX, snapshot.scaleY, snapshot.fontWeight,
      snapshot.charSpacing, snapshot.opacity, snapshot.stroke, snapshot.strokeWidth,
      snapshot.shadowColor, snapshot.shadowBlur, snapshot.paintFirst>>

\* the for loop of mergeUniqueSnapshots: the snapshots of incoming whose key is new
RECURSIVE Additions(_, _)
Additions(incoming, seen) ==
    IF Len(incoming) = 0 THEN <<>>
    ELSE LET key == buildSnapshotKey(Head(incoming))
         IN  IF key \in seen
               THEN Additions(Tail(incoming), seen)
               ELSE <<Head(incoming)>> \o Additions(Tail(incoming), seen \cup {key})

\* seq.slice(0, n)
Slice(seq, n) == SubSeq(seq, 1, Min(n, Len(seq)))

\* a merge that moves the snapshots it already holds to the front
MergeToFront(current, incoming) ==
    IF Len(incoming) = 0 THEN current
    ELSE LET keys == {buildSnapshotKey(incoming[i]) : i \in 1..Len(incoming)}
             rest == SelectSeq(current, LAMBDA item : buildSnapshotKey(item) \notin keys)
         IN  Slice(Additions(incoming, {}) \o rest, HISTORY_LIMIT)

\* a merge that forgets to cut the list
MergeUncut(current, incoming) ==
    IF Len(incoming) = 0 THEN current
    ELSE Additions(incoming, {buildSnapshotKey(current[i]) : i \in 1..Len(current)})
           \o current

mergeUniqueSnapshots(current, incoming) ==
    IF Len(incoming) = 0 THEN current
    ELSE LET seen      == {buildSnapshotKey(current[i]) : i \in 1..Len(current)}
             additions == Additions(incoming, seen)
         IN  IF Len(additions) = 0 THEN current
             ELSE Slice(additions \o current, HISTORY_LIMIT)

\* every snapshot of incoming is structurally identical to an entry of current
AllHeld(incoming, current) ==
    \A i \in 1..Len(incoming) : \E j \in 1..Len(current) : incoming[i] = current[j]

\* the snapshots of a canvas crowded with distinct annotations
Block == [i \in 1..BlockLen |-> Snap(i)]

\* what getAllTextSnapshots hands to a capture: an empty canvas, one annotation,
\* two identical ones, one with a preset key, or a crowded canvas
IncomingInputs ==
    {<<>>, <<Snap(0)>>, <<Snap(0), Snap(0)>>, <<PresetSnap(0)>>, <<Snap(2), Snap(0)>>, Block}

\* the entries whose delete button the user presses
RemoveInputs == {buildSnapshotKey(Snap(0)), buildSnapshotKey(Snap(1))}

NoMerge == [made |-> FALSE, incoming |-> <<>>, held |-> FALSE, removed |-> FALSE]

HistStart ==
    /\ idHistory = <<>>
    /\ stored = <<>>
    /\ storageThrows \in BOOLEAN
    /\ lastMerge = NoMerge
    /\ histOps = 0

HistIdle ==
    /\ idHistory = <<>>
    /\ stored = <<>>
    /\ storageThrows = FALSE
    /\ lastMerge = NoMerge
    /\ histOps = 0

\* the effect of App.tsx 606-612 after a change of idHistory: when setItem throws
\* (it is caught) the stored list stays what it was
Persisted(next) == IF storageThrows THEN stored ELSE next

captureCurrentIds(snapshots) ==
    /\ histOps < MaxHistOps
    /\ histOps' = histOps + 1
    /\ idHistory' = mergeUniqueSnapshots(idHistory, snapshots)
    /\ stored' = Persisted(idHistory')
    /\ lastMerge' = [made |-> TRUE, incoming |-> snapshots,
                     held |-> AllHeld(snapshots, idHistory), removed |-> FALSE]
    /\ UNCHANGED <<storageThrows, notHist>>

removeHistoryItem(key) ==
    /\ histOps < MaxHistOps
    /\ histOps' = histOps + 1
    /\ idHistory' = SelectSeq(idHistory, LAMBDA item : buildSnapshotKey(item) # key)
    /\ stored' = Persisted(idHistory')
    /\ lastMerge' = [made |-> FALSE, incoming |-> <<>>, held |-> FALSE, removed |-> TRUE]
    /\ UNCHANGED <<storageThrows, notHist>>

\* a new session: the initial state of idHistory is what localStorage parses to
reloadHistory ==
    /\ histOps < MaxHistOps
    /\ histOps' = histOps + 1
    /\ idHistory' = stored
    /\ lastMerge' = NoMerge
    /\ UNCHANGED <<stored, storageThrows, notHist>>

CaptureCurrentIds == \E snapshots \in IncomingInputs : captureCurrentIds(snapshots)

RemoveHistoryItem ==
    \E key \in RemoveInputs :
        /\ \E i \in 1..Len(idHistory) : buildSnapshotKey(idHistory[i]) = key
        /\ removeHistoryItem(key)

---------------------------------------------------------------------------
(* Font registry: part_002 (font-store) 25-239, part_000 (FontSelector) 73-200,
   useFabricEditor.ts 202-250, 780-806 *)

\* DEFAULT_FONT_FAMILY and another family of the manifest
DEFAULT_FONT_FAMILY == "default"

Fonts == {DEFAULT_FONT_FAMILY, "F"}

\* the percentages xhr.onprogress reports before the last byte
ProgressInputs == {50}

Idle == [status |-> "idle", progress |-> 0]

FreeSlot == [family |-> "", by |-> "", pc |-> "free"]

Status(f) == fontLoadStates[f].status

\* a store that would merge the status into the family's entry and keep its progress
MergeStatus(states, family, state) == [states EXCEPT ![family].status = state.status]

\* setFontLoadState(family, state)
setFontLoadState(states, family, state) == [states EXCEPT ![family] = state]

FontStart ==
    /\ customFontsLoaded = FALSE
    /\ fontLoadStates = [f \in Fonts |-> Idle]
    /\ cached \in [Fonts -> BOOLEAN]
    /\ initWaiting = 1
    /\ hookFetch = "pending"
    /\ eagerRan = FALSE
    /\ restores = [f \in Fonts |-> [match |-> 0, parse |-> 0]]
    /\ loads = [i \in 1..MaxLoads |-> FreeSlot]
    /\ loadingAll = FALSE
    /\ fetchStarted = [f \in Fonts |-> 0]
    /\ registered = [f \in Fonts |-> 0]

FontIdle ==
    /\ customFontsLoaded = FALSE
    /\ fontLoadStates = [f \in Fonts |-> Idle]
    /\ cached = [f \in Fonts |-> FALSE]
    /\ initWaiting = 0
    /\ hookFetch = "done"
    /\ eagerRan = FALSE
    /\ restores = [f \in Fonts |-> [match |-> 0, parse |-> 0]]
    /\ loads = [i \in 1..MaxLoads |-> FreeSlot]
    /\ loadingAll = FALSE
    /\ fetchStarted = [f \in Fonts |-> 0]
    /\ registered = [f \in Fonts |-> 0]

RECURSIVE Sum(_, _)
Sum(count, F) ==
    IF F = {} THEN 0
    ELSE LET f == CHOOSE x \in F : TRUE IN count[f] + Sum(count, F \ {f})

FreeSlots == {i \in 1..MaxLoads : loads[i].pc = "free"}

\* the slots the calls for the families of F take, lowest free slots first
RECURSIVE Allot(_, _, _)
Allot(slots, F, by) ==
    IF F = {} THEN slots
    ELSE LET f == CHOOSE x \in F : TRUE
             i == CHOOSE k \in 1..MaxLoads :
                      /\ slots[k].pc = "free"
                      /\ \A j \in 1..(k - 1) : slots[j].pc # "free"
         IN  Allot([slots EXCEPT ![i] = [family |-> f, by |-> by, pc |-> "fetch"]],
                   F \ {f}, by)

\* a caller marks the families of F loading and calls loadCustomFont for each:
\* setFontLoadState(f, {loading, 0}); loadCustomFont(entry, onProgress) ... xhr.send()
StartLoads(F, by) ==
    /\ Cardinality(F) <= Cardinality(FreeSlots)
    /\ Sum(fetchStarted, Fonts) + Cardinality(F) <= MaxFetches
    /\ fontLoadStates' = [f \in Fonts |->
          IF f \in F THEN [status |-> "loading", progress |-> 0] ELSE fontLoadStates[f]]
    /\ loads' = Allot(loads, F, by)
    /\ fetchStarted' = [f \in Fonts |-> IF f \in F THEN fetchStarted[f] + 1 ELSE fetchStarted[f]]

\* what a step of the font registry that may patch the selected annotation leaves alone
notFontPatch == <<image, sel, activeObject, vertVars, histVars, canvasVars, viewVars, askVars, blurVars,
                  mountVars, scaleVars>>

\* applyToActiveText({ fontFamily }) as setActiveFontFamily calls it
applyFontFamily(fontFamily) ==
    IF ~HasActiveText THEN UNCHANGED <<objs, inherited, rt>>
    ELSE /\ objs' = [objs EXCEPT ![ActiveText] =
                        Assign(@, EffectivePatch(@, [fontFamily |-> fontFamily]))]
         /\ inherited' = Assign(inherited, InheritedPart([fontFamily |-> fontFamily]))
         /\ rt' = RtIdle

\* FontSelector mounts before the manifest is known: another initFontStore
fontSelectorMount ==
    /\ ~customFontsLoaded
    /\ initWaiting < MaxInits
    /\ initWaiting' = initWaiting + 1
    /\ UNCHANGED <<customFontsLoaded, fontLoadStates, cached, hookFetch, eagerRan, restores,
                   loads, loadingAll, fetchStarted, registered, notFont>>

\* initFontStore after its await: the manifest is stored and restoreCachedFonts starts
\* one callback per family, each waiting on cache.match
initFontStore ==
    /\ initWaiting > 0
    /\ initWaiting' = initWaiting - 1
    /\ customFontsLoaded' = TRUE
    /\ restores' = [f \in Fonts |-> [restores[f] EXCEPT !.match = @ + 1]]
    /\ UNCHANGED <<fontLoadStates, cached, hookFetch, eagerRan, loads, loadingAll,
                   fetchStarted, registered, notFont>>

\* the manifest fetch of useFabricEditor resolves; it is dropped when the effect was
\* cleaned up, which a change of customFontsLoaded does
hookManifest ==
    /\ hookFetch = "pending"
    /\ hookFetch' = "done"
    /\ customFontsLoaded' = TRUE
    /\ UNCHANGED <<fontLoadStates, cached, initWaiting, eagerRan, restores, loads,
                   loadingAll, fetchStarted, registered, notFont>>

\* restoreCachedFonts after cache.match: nothing cached ends the callback
restoreMatch(f) ==
    /\ restores[f].match > 0
    /\ restores' = [restores EXCEPT ![f] =
          [match |-> @.match - 1, parse |-> IF cached[f] THEN @.parse + 1 ELSE @.parse]]
    /\ UNCHANGED <<customFontsLoaded, fontLoadStates, cached, initWaiting, hookFetch,
                   eagerRan, loads, loadingAll, fetchStarted, registered, notFont>>

\* restoreCachedFonts after fontFace.load(): the font is registered and marked loaded
restoreLoaded(f) ==
    /\ restores[f].parse > 0
    /\ restores' = [restores EXCEPT ![f].parse = @ - 1]
    /\ registered' = [registered EXCEPT ![f] = @ + 1]
    /\ fontLoadStates' = setFontLoadState(fontLoadStates, f, [status |-> "loaded", progress |-> 100])
    /\ UNCHANGED <<customFontsLoaded, cached, initWaiting, hookFetch, eagerRan, loads,
                   loadingAll, fetchStarted, notFont>>

\* restoreCachedFonts when the cached bytes do not parse: caught, nothing changes
restoreFailed(f) ==
    /\ restores[f].parse > 0
    /\ restores' = [restores EXCEPT ![f].parse = @ - 1]
    /\ UNCHANGED <<customFontsLoaded, fontLoadStates, cached, initWaiting, hookFetch,
                   eagerRan, loads, loadingAll, fetchStarted, registered, notFont>>

\* useFabricEditor.ts 217-250: the effect that loads the default family once the
\* manifest is known, unless it is loaded or loading
defaultFontEffect ==
    /\ customFontsLoaded
    /\ ~eagerRan
    /\ eagerRan' = TRUE
    /\ IF Status(DEFAULT_FONT_FAMILY) \in {"loaded", "loading"}
         THEN UNCHANGED <<fontLoadStates, loads, fetchStarted>>
         ELSE StartLoads({DEFAULT_FONT_FAMILY}, "default")
    /\ UNCHANGED <<customFontsLoaded, cached, initWaiting, hookFetch, restores,
                   loadingAll, registered, notFont>>

\* FontSelector handleSelectFont on a family of the manifest: nothing while it is
\* loading; a loaded one goes to onChange, where setActiveFontFamily finds it loaded
\* and patches the selected annotation
handleSelectFont(f) ==
    /\ customFontsLoaded
    /\ IF Status(f) = "loading"
         THEN UNCHANGED <<fontLoadStates, loads, fetchStarted, objs, inherited, rt>>
         ELSE IF Status(f) = "loaded"
           THEN /\ UNCHANGED <<fontLoadStates, loads, fetchStarted>>
                /\ applyFontFamily(f)
           ELSE /\ StartLoads({f}, "select")
                /\ UNCHANGED <<objs, inherited, rt>>
    /\ UNCHANGED <<customFontsLoaded, cached, initWaiting, hookFetch, eagerRan, restores,
                   loadingAll, registered, notFontPatch>>

\* FontSelector handleLoadAllFonts: every family neither loaded nor loading
handleLoadAllFonts ==
    LET unloaded == {f \in Fonts : Status(f) \notin {"loaded", "loading"}}
    IN  /\ customFontsLoaded
        /\ ~loadingAll
        /\ unloaded # {}
        /\ loadingAll' = TRUE
        /\ StartLoads(unloaded, "loadAll")
        /\ UNCHANGED <<customFontsLoaded, cached, initWaiting, hookFetch, eagerRan,
                       restores, registered, notFont>>

\* setActiveFontFamily: a family of the manifest whose status is not "loaded" is
\* loaded first; any other family is set on the selected annotation at once
setActiveFontFamily(f) ==
    /\ IF customFontsLoaded /\ Status(f) # "loaded"
         THEN /\ StartLoads({f}, "setActive")
              /\ UNCHANGED <<objs, inherited, rt>>
         ELSE /\ UNCHANGED <<fontLoadStates, loads, fetchStarted>>
              /\ applyFontFamily(f)
    /\ UNCHANGED <<customFontsLoaded, cached, initWaiting, hookFetch, eagerRan, restores,
                   loadingAll, registered, notFontPatch>>

\* the slot is free again; the load-all ends with the last of its calls
Release(i) ==
    /\ loads' = [loads EXCEPT ![i] = FreeSlot]
    /\ loadingAll' =
          IF loads[i].by = "loadAll" /\ \A j \in 1..MaxLoads : j # i => loads[j].by # "loadAll"
            THEN FALSE ELSE loadingAll

\* xhr.onprogress: the caller's callback writes {loading, pct}
loadProgress(i) ==
    /\ loads[i].pc = "fetch"
    /\ \E pct \in ProgressInputs :
          fontLoadStates' = setFontLoadState(fontLoadStates, loads[i].family,
                                             [status |-> "loading", progress |-> pct])
    /\ UNCHANGED <<customFontsLoaded, cached, initWaiting, hookFetch, eagerRan, restores,
                   loads, loadingAll, fetchStarted, registered, notFont>>

\* the request ends with an abort or a timeout event: loadCustomFont sets neither
\* xhr.onabort nor xhr.ontimeout, so its promise is never settled and no caller's
\* continuation runs
loadAbandoned(i) ==
    /\ loads[i].pc = "fetch"
    /\ loads' = [loads EXCEPT ![i].pc = "unsettled"]
    /\ UNCHANGED <<customFontsLoaded, fontLoadStates, cached, initWaiting, hookFetch,
                   eagerRan, restores, loadingAll, fetchStarted, registered, notFont>>

\* xhr.onload with a 2xx status: fontFace.load() is awaited
loadFetched(i) ==
    /\ loads[i].pc = "fetch"
    /\ loads' = [loads EXCEPT ![i].pc = "parse"]
    /\ UNCHANGED <<customFontsLoaded, fontLoadStates, cached, initWaiting, hookFetch,
                   eagerRan, restores, loadingAll, fetchStarted, registered, notFont>>

\* a rejection after which the family is set on the selected annotation all the same
RejectedApplies(i) ==
    /\ loads[i].pc \in {"fetch", "parse"}
    /\ fontLoadStates' = setFontLoadState(fontLoadStates, loads[i].family,
                                          [status |-> "error", progress |-> 0])
    /\ Release(i)
    /\ applyFontFamily(loads[i].family)
    /\ UNCHANGED <<customFontsLoaded, cached, initWaiting, hookFetch, eagerRan, restores,
                   fetchStarted, registered, notFontPatch>>

\* xhr.onerror, a status outside 2xx, or fontFace.load() rejecting: the promise is
\* rejected and the caller's catch writes {error, 0}
loadRejected(i) ==
    /\ loads[i].pc \in {"fetch", "parse"}
    /\ fontLoadStates' = setFontLoadState(fontLoadStates, loads[i].family,
                                          [status |-> "error", progress |-> 0])
    /\ Release(i)
    /\ UNCHANGED <<customFontsLoaded, cached, initWaiting, hookFetch, eagerRan, restores,
                   fetchStarted, registered, notFont>>

\* fontFace.load() resolved: document.fonts.add, onProgress(100), then the cache write
loadParsed(i) ==
    /\ loads[i].pc = "parse"
    /\ registered' = [registered EXCEPT ![loads[i].family] = @ + 1]
    /\ fontLoadStates' = setFontLoadState(fontLoadStates, loads[i].family,
                                          [status |-> "loading", progress |-> 100])
    /\ loads' = [loads EXCEPT ![i].pc = "cache"]
    /\ UNCHANGED <<customFontsLoaded, cached, initWaiting, hookFetch, eagerRan, restores,
                   loadingAll, fetchStarted, notFont>>

\* the cache write ended (a failure is only logged): the promise resolves and the
\* caller writes {loaded, 100}; setActiveFontFamily goes on to patch the selected
\* annotation, and so does the selector through onChange
loadResolved(i) ==
    /\ loads[i].pc = "cache"
    /\ \E written \in BOOLEAN :
          cached' = [cached EXCEPT ![loads[i].family] = @ \/ written]
    /\ fontLoadStates' = setFontLoadState(fontLoadStates, loads[i].family,
                                          [status |-> "loaded", progress |-> 100])
    /\ Release(i)
    /\ IF loads[i].by \in {"setActive", "select"}
         THEN applyFontFamily(loads[i].family)
         ELSE UNCHANGED <<objs, inherited, rt>>
    /\ UNCHANGED <<customFontsLoaded, initWaiting, hookFetch, eagerRan, restores,
                   fetchStarted, registered, notFontPatch>>

---------------------------------------------------------------------------
(* Image loading and export: useFabricEditor.ts 437-491, 818-847 *)

\* the files picked: file f decodes to an image naturalWidth x naturalHeight
Files == 1..MaxFiles

naturalWidth(f) == 10 * f

naturalHeight(f) == 10 * f + 5

\* the dimensions of the canvas showing file f; those of a new canvas for f = 0
Dims(f) == IF f = 0 THEN [width |-> 0, height |-> 0]
           ELSE [width |-> naturalWidth(f), height |-> naturalHeight(f)]

\* canvas.backgroundColor of a new or cleared canvas, and the substitute for jpeg
Transparent == ""

White == "#ffffff"

Formats == {"png", "jpeg"}

FreeLoad == [pc |-> "free", file |-> 0]

FreeExport == [pc |-> "free", format |-> "png", prevBg |-> Transparent,
               bgAtCall |-> Transparent, outcome |-> "none"]

\* the canvas as loadLocalImage left it for the stored image, nothing in flight
CanvasIdle ==
    /\ backgroundColor = Transparent
    /\ canvasDims = Dims(image.id)
    /\ backgroundImage = image.id
    /\ imgLoads = [i \in 1..MaxFiles |-> FreeLoad]
    /\ imgCalls = 0
    /\ loadFailed = FALSE
    /\ exports = [e \in 1..MaxExports |-> FreeExport]
    /\ exportCalls = 0
    /\ downloads = 0

\* loadLocalImage(file) up to its first await, fileToDataURL
loadLocalImage(file) ==
  IF ~canvas THEN Skip("loadLocalImage") ELSE
    /\ imgCalls < MaxImgCalls
    /\ \E i \in 1..MaxFiles :
          /\ imgLoads[i].pc = "free"
          /\ \A j \in 1..(i - 1) : imgLoads[j].pc # "free"
          /\ imgLoads' = [imgLoads EXCEPT ![i] = [pc |-> "read", file |-> file]]
    /\ imgCalls' = imgCalls + 1
    /\ UNCHANGED <<backgroundColor, canvasDims, backgroundImage, loadFailed, exports,
                   exportCalls, downloads, textVars, notCanvas>>

\* fileToDataURL resolved: loadImageElement is awaited
imageRead(i) ==
    /\ imgLoads[i].pc = "read"
    /\ imgLoads' = [imgLoads EXCEPT ![i].pc = "decode"]
    /\ UNCHANGED <<backgroundColor, canvasDims, backgroundImage, imgCalls, loadFailed,
                   exports, exportCalls, downloads, textVars, notCanvas>>

\* loadImageElement resolved: canvas.clear() drops the objects, the background image
\* and the background colour; the selection is reset and the canvas takes the image's
\* dimensions; FabricImage.fromURL is awaited
imageDecoded(i) ==
    /\ imgLoads[i].pc = "decode"
    /\ objs' = <<>>
    /\ sel' = {}
    /\ activeObject' = {}
    /\ rt' = RtIdle
    /\ backgroundImage' = 0
    /\ backgroundColor' = Transparent
    /\ canvasDims' = Dims(imgLoads[i].file)
    /\ imgLoads' = [imgLoads EXCEPT ![i].pc = "create"]
    /\ UNCHANGED <<image, inherited, imgCalls, loadFailed, exports, exportCalls,
                   downloads, notCanvas>>

\* FabricImage.fromURL resolved: the background image and the metadata are set
backgroundCreated(i) ==
    /\ imgLoads[i].pc = "create"
    /\ backgroundImage' = imgLoads[i].file
    /\ image' = [id |-> imgLoads[i].file]
    /\ imgLoads' = [imgLoads EXCEPT ![i] = FreeLoad]
    /\ UNCHANGED <<objs, sel, activeObject, inherited, rt, backgroundColor, canvasDims, imgCalls,
                   loadFailed, exports, exportCalls, downloads, notCanvas>>

\* the awaited promise rejects: the call ends where it is
imageLoadRejected(i) ==
    /\ imgLoads[i].pc \in {"read", "decode", "create"}
    /\ imgLoads' = [imgLoads EXCEPT ![i] = FreeLoad]
    /\ loadFailed' = TRUE
    /\ UNCHANGED <<backgroundColor, canvasDims, backgroundImage, imgCalls, exports,
                   exportCalls, downloads, textVars, notCanvas>>

\* exportImage(format) up to its first await, document.fonts.ready
exportImage(format) ==
  IF ~HasCanvasAndImage THEN Skip("exportImage") ELSE
    /\ exportCalls < MaxExportCalls
    /\ \E e \in 1..MaxExports :
          /\ exports[e].pc = "free"
          /\ \A j \in 1..(e - 1) : exports[j].pc # "free"
          /\ exports' = [exports EXCEPT ![e] =
                [pc |-> "fonts", format |-> format, prevBg |-> Transparent,
                 bgAtCall |-> backgroundColor, outcome |-> "none"]]
    /\ exportCalls' = exportCalls + 1
    /\ UNCHANGED <<backgroundColor, canvasDims, backgroundImage, imgLoads, imgCalls,
                   loadFailed, downloads, textVars, notCanvas>>

\* document.fonts.ready resolved: prevBg is read, jpeg substitutes white, and
\* canvas.toBlob is awaited
exportRasterize(e) ==
    /\ exports[e].pc = "fonts"
    /\ exports' = [exports EXCEPT ![e].pc = "blob", ![e].prevBg = backgroundColor]
    /\ backgroundColor' = IF exports[e].format = "jpeg" THEN White ELSE backgroundColor
    /\ UNCHANGED <<canvasDims, backgroundImage, imgLoads, imgCalls, loadFailed,
                   exportCalls, downloads, textVars, notCanvas>>

\* canvas.toBlob resolved with a blob: prevBg is put back and the download triggered
exportDownloaded(e) ==
    /\ exports[e].pc = "blob"
    /\ backgroundColor' = exports[e].prevBg
    /\ downloads' = downloads + 1
    /\ exports' = [exports EXCEPT ![e].pc = "free", ![e].outcome = "blob"]
    /\ UNCHANGED <<canvasDims, backgroundImage, imgLoads, imgCalls, loadFailed,
                   exportCalls, textVars, notCanvas>>

\* canvas.toBlob resolved with null: prevBg is put back and the call returns
exportNoData(e) ==
    /\ exports[e].pc = "blob"
    /\ backgroundColor' = exports[e].prevBg
    /\ exports' = [exports EXCEPT ![e].pc = "free", ![e].outcome = "null"]
    /\ UNCHANGED <<canvasDims, backgroundImage, imgLoads, imgCalls, loadFailed,
                   exportCalls, downloads, textVars, notCanvas>>

\* canvas.toBlob threw or rejected: the call ends at the await, nothing after it runs
exportThrew(e) ==
    /\ exports[e].pc = "blob"
    /\ exports' = [exports EXCEPT ![e].pc = "free", ![e].outcome = "throw"]
    /\ UNCHANGED <<backgroundColor, canvasDims, backgroundImage, imgLoads, imgCalls,
                   loadFailed, exportCalls, downloads, textVars, notCanvas>>

---------------------------------------------------------------------------
(* Viewport: zoom and pan. useFabricEditor.ts 88-91, 122-127, 290-435;
   App.tsx 63-66, 88-166, 726-747 *)

\* Numbers are finite grid values, counted in steps of Number.MIN_VALUE, or one of
\* NaN, Infinity, -Infinity
Num(n) == [kind |-> "finite", v |-> n]

NaN == [kind |-> "NaN", v |-> 0]

PosInf == [kind |-> "Infinity", v |-> 0]

NegInf == [kind |-> "-Infinity", v |-> 0]

\* the number 1, the store's first previewZoom
ONE == 10

MIN_VALUE == Num(1)

isFinite(z) == z.kind = "finite"

\* a finite number after rounding to the grid: beyond MAX_VALUE it is an infinity
Rounded(n) == IF n > MaxZoom THEN PosInf ELSE IF n < 0 - MaxZoom THEN NegInf ELSE Num(n)

\* a / b for a >= 0, b > 0, rounded to the nearest grid value, ties to even
DivRound(a, b) ==
    LET q == a \div b
        r == a % b
    IN  IF 2 * r > b THEN q + 1
        ELSE IF 2 * r = b THEN q + (q % 2)
        ELSE q

\* a factor is a ratio n/d, or Infinity where Math.exp overflows
Ratio(n, d) == [kind |-> "finite", n |-> n, d |-> d]

InfFactor == [kind |-> "Infinity", n |-> 1, d |-> 1]

\* z * f for a finite z > 0 and a factor f >= 0
Times(z, f) ==
    IF f.kind = "Infinity" THEN PosInf
    ELSE Rounded(DivRound(z.v * f.n, f.d))

\* the zoom stored with one fallback, the minimal positive value, for every
\* non-finite or non-positive request
MinimalZoom(zoom) ==
    IF isFinite(zoom) /\ zoom.v > 0 THEN zoom ELSE MIN_VALUE

\* the zoom stored as requested
RawZoom(zoom) == zoom

\* toPositiveZoom
toPositiveZoom(zoom) ==
    IF ~isFinite(zoom) THEN Num(ONE)
    ELSE IF zoom.v > 0 THEN zoom ELSE MIN_VALUE

\* toPositiveValue (App.tsx)
toPositiveValue(value, fallback) ==
    IF ~isFinite(value) THEN fallback
    ELSE IF value.v > 0 THEN value ELSE fallback

\* Math.exp(-deltaY * WHEEL_ZOOM_SENSITIVITY) for the wheel deltas followed: a notch
\* either way, and deltas so large that the exponential is 0 or Infinity
WheelFactors == {Ratio(1, 2), Ratio(2, 1), Ratio(0, 1), InfFactor}

\* Math.exp(deltaX * ZOOM_DRAG_SENSITIVITY) for the ruler drags followed
DragFactors == {Ratio(1, 2), Ratio(2, 1), Ratio(0, 1), InfFactor}

\* the values a caller of the hook may hand to setPreviewZoom
ZoomRequests == {NaN, PosInf, NegInf, Num(0 - ONE), Num(0), Num(1), Num(ONE), Num(2 * ONE)}

Coords == 0..MaxCoord

Point == [x : Coords, y : Coords]

\* what the browser makes of an assignment to scrollLeft / scrollTop
Scrolled(n) == IF n < 0 THEN 0 ELSE IF n > MaxCoord THEN MaxCoord ELSE n

NoDrag == [on |-> FALSE, startValue |-> Num(ONE)]

ViewIdle ==
    /\ previewZoom = Num(ONE)
    /\ spacePressed = FALSE
    /\ spaceHeld = FALSE
    /\ panState = [active |-> FALSE, startX |-> 0, startY |-> 0,
                   scrollLeft |-> 0, scrollTop |-> 0]
    /\ scroll = [left |-> 0, top |-> 0]
    /\ rulerDrag = NoDrag
    /\ zoomAsk = [made |-> FALSE, value |-> Num(ONE)]
    /\ lastEvent = "none"

\* setPreviewZoom(zoom): setPreviewZoomRaw(toPositiveZoom(zoom))
setPreviewZoom(zoom) ==
    /\ previewZoom' = toPositiveZoom(zoom)
    /\ zoomAsk' = [made |-> TRUE, value |-> zoom]

\* onWheel with ctrl or meta held
onWheel(factor) ==
    /\ image # NoImage
    /\ setPreviewZoom(Times(previewZoom, factor))
    /\ lastEvent' = "wheel"
    /\ UNCHANGED <<spacePressed, spaceHeld, panState, scroll, rulerDrag, notView>>

\* the zoom-out and zoom-in buttons: previewZoom / 1.1, previewZoom * 1.1
zoomButton(factor) ==
    /\ image # NoImage
    /\ setPreviewZoom(Times(previewZoom, factor))
    /\ lastEvent' = "click"
    /\ UNCHANGED <<spacePressed, spaceHeld, panState, scroll, rulerDrag, notView>>

\* onKeyDown with Space outside a typing target
onKeyDownSpace ==
    /\ spacePressed' = IF image # NoImage /\ previewZoom.v > ONE THEN TRUE ELSE spacePressed
    /\ spaceHeld' = TRUE
    /\ lastEvent' = "keydown"
    /\ UNCHANGED <<previewZoom, panState, scroll, rulerDrag, zoomAsk, notView>>

\* onKeyUp with Space
onKeyUpSpace ==
    /\ spacePressed' = FALSE
    /\ spaceHeld' = FALSE
    /\ lastEvent' = "keyup"
    /\ UNCHANGED <<previewZoom, panState, scroll, rulerDrag, zoomAsk, notView>>

\* onPointerDown on the container
onPointerDown(button, pointerType, at) ==
    /\ image # NoImage
    /\ lastEvent' = "pointerdown"
    /\ LET useMiddleButton == button = 1
           useSpaceLeftButton == button = 0 /\ spacePressed
           hasActiveObject == sel # {}
           useTouchPan == pointerType = "touch" /\ button = 0 /\ ~hasActiveObject
       IN  IF previewZoom.v <= ONE \/ ~(useMiddleButton \/ useSpaceLeftButton \/ useTouchPan)
             THEN UNCHANGED panState
             ELSE panState' = [active |-> TRUE, startX |-> at.x, startY |-> at.y,
                               scrollLeft |-> scroll.left, scrollTop |-> scroll.top]
    /\ UNCHANGED <<previewZoom, spacePressed, spaceHeld, scroll, rulerDrag, zoomAsk, notView>>

\* a pan that moves on from the current scroll offsets instead of the recorded ones
MoveFromCurrent(at) ==
    /\ image # NoImage
    /\ lastEvent' = "pointermove"
    /\ IF ~panState.active THEN UNCHANGED scroll
       ELSE scroll' = [left |-> Scrolled(scroll.left - (at.x - panState.startX)),
                       top |-> Scrolled(scroll.top - (at.y - panState.startY))]
    /\ UNCHANGED <<previewZoom, spacePressed, spaceHeld, panState, rulerDrag, zoomAsk, notView>>

\* onPointerMove on the window
onPointerMove(at) ==
    /\ image # NoImage
    /\ lastEvent' = "pointermove"
    /\ IF ~panState.active THEN UNCHANGED scroll
       ELSE scroll' = [left |-> Scrolled(panState.scrollLeft - (at.x - panState.startX)),
                       top |-> Scrolled(panState.scrollTop - (at.y - panState.startY))]
    /\ UNCHANGED <<previewZoom, spacePressed, spaceHeld, panState, rulerDrag, zoomAsk, notView>>

\* stopPan
stopPan == panState' = [panState EXCEPT !.active = FALSE]

\* onPointerUp on the window
onPointerUp ==
    /\ image # NoImage
    /\ lastEvent' = "pointerup"
    /\ stopPan
    /\ UNCHANGED <<previewZoom, spacePressed, spaceHeld, scroll, rulerDrag, zoomAsk, notView>>

\* onBlur on the window
onBlur ==
    /\ image # NoImage
    /\ lastEvent' = "blur"
    /\ stopPan
    /\ UNCHANGED <<previewZoom, spacePressed, spaceHeld, scroll, rulerDrag, zoomAsk, notView>>

\* the Space key goes up while the window is without focus: the keyup goes to another
\* window, no listener of this one runs
spaceReleasedAway ==
    /\ image # NoImage
    /\ spaceHeld
    /\ lastEvent = "blur"
    /\ spaceHeld' = FALSE
    /\ UNCHANGED <<previewZoom, spacePressed, panState, scroll, rulerDrag, zoomAsk,
                   lastEvent, notView>>

\* pointercancel or lostpointercapture for the panning pointer: the effect registers
\* no listener for either
pointerLost ==
    /\ image # NoImage
    /\ lastEvent' = "pointercancel"
    /\ UNCHANGED <<previewZoom, spacePressed, spaceHeld, panState, scroll, rulerDrag, zoomAsk, notView>>

\* InfiniteScaleRuler onPointerDown: safeValue is kept as the drag's start
rulerPointerDown ==
    /\ image # NoImage
    /\ rulerDrag' = [on |-> TRUE, startValue |-> toPositiveValue(previewZoom, Num(ONE))]
    /\ UNCHANGED <<previewZoom, spacePressed, spaceHeld, panState, scroll, zoomAsk, lastEvent, notView>>

\* InfiniteScaleRuler onPointerMove: updateFromDrag
rulerPointerMove(factor) ==
    /\ rulerDrag.on
    /\ setPreviewZoom(toPositiveValue(Times(rulerDrag.startValue, factor), Num(ONE)))
    /\ UNCHANGED <<spacePressed, spaceHeld, panState, scroll, rulerDrag, lastEvent, notView>>

\* InfiniteScaleRuler onPointerUp / onPointerCancel
rulerPointerUp ==
    /\ rulerDrag.on
    /\ rulerDrag' = NoDrag
    /\ UNCHANGED <<previewZoom, spacePressed, spaceHeld, panState, scroll, zoomAsk, lastEvent, notView>>

\* InfiniteScaleRuler onDoubleClick: onValueChange(resetValue)
rulerReset ==
    /\ image # NoImage
    /\ setPreviewZoom(Num(ONE))
    /\ UNCHANGED <<spacePressed, spaceHeld, panState, scroll, rulerDrag, lastEvent, notView>>

\* InfiniteScaleRuler onKeyDown with ArrowLeft / ArrowRight: safeValue / 1.05, * 1.05
rulerKey(factor) ==
    /\ image # NoImage
    /\ setPreviewZoom(Times(toPositiveValue(previewZoom, Num(ONE)), factor))
    /\ UNCHANGED <<spacePressed, spaceHeld, panState, scroll, rulerDrag, lastEvent, notView>>

\* setPreviewZoom called with any number
requestZoom(zoom) ==
    /\ setPreviewZoom(zoom)
    /\ UNCHANGED <<spacePressed, spaceHeld, panState, scroll, rulerDrag, lastEvent, notView>>

---------------------------------------------------------------------------
(* Display scale: useFabricEditor.ts 147-160, 446-450 *)

\* a <= b for numbers that are not NaN
NumLeq(a, b) ==
    \/ a.kind = "-Infinity"
    \/ b.kind = "Infinity"
    \/ a.kind = "finite" /\ b.kind = "finite" /\ a.v <= b.v

\* Math.min(a, b)
MathMin(a, b) ==
    IF a.kind = "NaN" \/ b.kind = "NaN" THEN NaN
    ELSE IF NumLeq(a, b) THEN a ELSE b

\* a / b for two sizes in pixels, a > 0: b = 0 gives Infinity
Quotient(a, b) == IF b = 0 THEN PosInf ELSE Rounded(DivRound(ONE * a, b))

\* a * b for two non-negative finite numbers
Product(a, b) == Rounded(DivRound(a.v * b.v, ONE))

\* the fitScale memo
fitScale(hasImage, cw, ch, iw, ih) ==
    IF ~hasImage THEN Num(ONE)
    ELSE IF cw = 0 \/ ch = 0 THEN Num(ONE)
    ELSE LET scale == MathMin(Quotient(cw, iw), Quotient(ch, ih))
         IN  IF isFinite(scale) /\ scale.v > 0 THEN MathMin(scale, Num(ONE)) ELSE Num(ONE)

\* the displayScale memo
displayScale(fit, zoom) == Product(fit, toPositiveZoom(zoom))

\* nextFitScale of loadLocalImage, for the decoded image w x h
nextFitScale(cw, ch, w, h) ==
    IF cw # 0 /\ ch # 0
      THEN MathMin(MathMin(Quotient(cw, w), Quotient(ch, h)), Num(ONE))
      ELSE Num(ONE)

\* positive zooms: the least, one half, 1 and the greatest
ZoomInputs == {Num(1), Num(5), Num(ONE), Num(MaxZoom)}

NoScale == [fit |-> Num(ONE), display |-> Num(ONE), nextFit |-> Num(ONE),
            nextDisplay |-> Num(ONE)]

ScaleStart ==
    /\ scaleIn \in [cw : 0..MaxSide, ch : 0..MaxSide, iw : 1..MaxSide, ih : 1..MaxSide,
                    zoom : ZoomInputs]
    /\ scaleOut = NoScale
    /\ scalePc = "in"

ScaleIdle ==
    /\ scaleIn = [cw |-> 0, ch |-> 0, iw |-> 1, ih |-> 1, zoom |-> Num(ONE)]
    /\ scaleOut = NoScale
    /\ scalePc = "in"

notScale == <<vertVars, textVars, histVars, fontVars, canvasVars, viewVars, askVars,
              blurVars, mountVars>>

\* the two memos are evaluated for an image iw x ih in the store
fitScaleMemo ==
    /\ scalePc = "in"
    /\ scaleOut' = [scaleOut EXCEPT
          !.fit = fitScale(TRUE, scaleIn.cw, scaleIn.ch, scaleIn.iw, scaleIn.ih)]
    /\ scalePc' = "fit"
    /\ UNCHANGED <<scaleIn, notScale>>

displayScaleMemo ==
    /\ scalePc = "fit"
    /\ scaleOut' = [scaleOut EXCEPT !.display = displayScale(scaleOut.fit, scaleIn.zoom)]
    /\ scalePc' = "display"
    /\ UNCHANGED <<scaleIn, notScale>>

\* loadLocalImage computes the scales of an image iw x ih it has decoded
loadScales ==
    /\ scalePc = "display"
    /\ LET next == nextFitScale(scaleIn.cw, scaleIn.ch, scaleIn.iw, scaleIn.ih)
       IN  scaleOut' = [scaleOut EXCEPT
              !.nextFit = next,
              !.nextDisplay = Product(next, toPositiveZoom(scaleIn.zoom))]
    /\ scalePc' = "load"
    /\ UNCHANGED <<scaleIn, notScale>>

---------------------------------------------------------------------------
(* The encoding applied to drawn strings *)

VertStart ==
    /\ vsrc \in SeqsUpTo(Chars, MaxLen)
    /\ venc = <<>>
    /\ vdec = <<>>
    /\ vpc = "src"

VertIdle ==
    /\ vsrc = <<>>
    /\ venc = <<>>
    /\ vdec = <<>>
    /\ vpc = "src"

Encode ==
    /\ vpc = "src"
    /\ venc' = toVerticalText(vsrc)
    /\ vpc' = "enc"
    /\ UNCHANGED <<vsrc, vdec, notVert>>

Decode ==
    /\ vpc = "enc"
    /\ vdec' = fromVerticalText(venc)
    /\ vpc' = "dec"
    /\ UNCHANGED <<vsrc, venc, notVert>>

VertNext == Encode \/ Decode

VertInit == VertStart /\ TextIdle /\ HistIdle /\ FontIdle /\ CanvasIdle /\ ViewIdle /\ AskIdle /\ BlurIdle /\ Mounted /\ ScaleIdle

SpecVertical == VertInit /\ [][VertNext]_vars

\* C1: for every string s with no line break, fromVerticalText(toVerticalText(s)) = s
C1_RoundTrip == (vpc = "dec" /\ ~HasBreak(vsrc)) => vdec = vsrc

\* a break-free string of two or more code units has been encoded and decoded
C1_Witness == vpc = "dec" /\ ~HasBreak(vsrc) /\ Len(vsrc) >= 2 /\ Len(venc) > Len(vsrc)

---------------------------------------------------------------------------
(* The annotation engine on a loaded image *)

TextNext ==
    \/ AddText
    \/ AddTextFromSnapshot
    \/ ApplyText
    \/ ApplyCharSpacing
    \/ SetActiveTextVertical
    \/ deleteActiveObject
    \/ selectObjects
    \/ clearSelection

TextInit == TextStart /\ VertIdle /\ HistIdle /\ FontIdle /\ CanvasIdle /\ ViewIdle /\ AskIdle /\ BlurIdle /\ Mounted /\ ScaleIdle

SpecText == TextInit /\ [][TextNext]_vars

\* C2: a vertical annotation switched to horizontal and straight back to vertical
\* has the encoded content and the line height it had before the two switches
C2_OrientationRoundTrip ==
    rt.stage = 2 =>
        /\ objs[ActiveText].text = rt.text
        /\ objs[ActiveText].lineHeight = rt.lineHeight

\* a snapshot-made vertical annotation came back from the round trip
C2_Reached == rt.stage = 2

---------------------------------------------------------------------------
(* The style history over captures, removals and new sessions *)

HistNext ==
    \/ CaptureCurrentIds
    \/ RemoveHistoryItem
    \/ reloadHistory

HistInit == HistStart /\ VertIdle /\ TextIdle /\ FontIdle /\ CanvasIdle /\ ViewIdle /\ AskIdle /\ BlurIdle /\ Mounted /\ ScaleIdle

SpecHistory == HistInit /\ [][HistNext]_vars

\* C3: from an empty history, after any captures, removals and reloads, the history
\* holds at most 40 entries
C3_HistoryBounded == Len(idHistory) <= HISTORY_LIMIT

\* a capture has just cut a history that would have been longer than 40
C3_Witness ==
    /\ lastMerge.made
    /\ Len(idHistory) = HISTORY_LIMIT
    /\ ~AllHeld(lastMerge.incoming, idHistory)

\* C4: a merge whose incoming snapshots are all structurally identical to entries of
\* current (an empty incoming included) returns current, same entries, same order
C4_MergeOfHeldIsIdentity ==
    [][(lastMerge'.made /\ AllHeld(lastMerge'.incoming, idHistory)) => idHistory' = idHistory]_vars

\* a merge of a non-empty list of held snapshots was made on a history of several entries
C4_Witness ==
    /\ lastMerge.made
    /\ lastMerge.held
    /\ Len(lastMerge.incoming) > 0
    /\ Len(idHistory) > 1
    /\ idHistory[1] # lastMerge.incoming[1]

---------------------------------------------------------------------------
(* The font registry: startup, cache restore, the selector and the loads *)

RestoreMatch == \E f \in Fonts : restoreMatch(f)
RestoreLoaded == \E f \in Fonts : restoreLoaded(f)
RestoreFailed == \E f \in Fonts : restoreFailed(f)
HandleSelectFont == \E f \in Fonts : handleSelectFont(f)
SetActiveFontFamily == \E f \in Fonts : setActiveFontFamily(f)
LoadProgress == \E i \in 1..MaxLoads : loadProgress(i)
LoadFetched == \E i \in 1..MaxLoads : loadFetched(i)
LoadRejected == \E i \in 1..MaxLoads : loadRejected(i)
LoadParsed == \E i \in 1..MaxLoads : loadParsed(i)
LoadResolved == \E i \in 1..MaxLoads : loadResolved(i)

\* the application: setActiveFontFamily is reached through the selector only
FontNext ==
    \/ fontSelectorMount
    \/ initFontStore
    \/ hookManifest
    \/ RestoreMatch
    \/ RestoreLoaded
    \/ RestoreFailed
    \/ defaultFontEffect
    \/ HandleSelectFont
    \/ handleLoadAllFonts
    \/ LoadProgress
    \/ LoadFetched
    \/ LoadRejected
    \/ LoadParsed
    \/ LoadResolved

FontInit == FontStart /\ VertIdle /\ TextIdle /\ HistIdle /\ CanvasIdle /\ ViewIdle /\ AskIdle /\ BlurIdle /\ Mounted /\ ScaleIdle

SpecFont == FontInit /\ [][FontNext]_vars

\* the hook's operations: setActiveFontFamily is also called on its own
FontApiNext == FontNext \/ SetActiveFontFamily

SpecFontApi == FontInit /\ [][FontApiNext]_vars

\* C5: no fetch for a family is started while that family's status is loading
C5_NoSecondFetch ==
    [][\A f \in Fonts : fetchStarted'[f] > fetchStarted[f] => Status(f) # "loading"]_vars

\* C6: a family's status changes only along idle -> loading, loading -> loaded,
\* loading -> error and error -> loading
C6_StatusTransitions ==
    [][\A f \in Fonts :
          \/ fontLoadStates'[f].status = Status(f)
          \/ <<Status(f), fontLoadStates'[f].status>> \in
                {<<"idle", "loading">>, <<"loading", "loaded">>,
                 <<"loading", "error">>, <<"error", "loading">>}]_vars

\* C6, its last clause: a family whose status is loaded never goes back to loading
\* or error
C6_LoadedIsFinal ==
    [][\A f \in Fonts : Status(f) = "loaded" => fontLoadStates'[f].status = "loaded"]_vars

\* C7: each family is registered with document.fonts at most once
C7_RegisteredOnce == \A f \in Fonts : registered[f] <= 1

---------------------------------------------------------------------------
(* Export: overlapping exportImage calls on a loaded image *)

ExportImage == \E format \in Formats : exportImage(format)
ExportRasterize == \E e \in 1..MaxExports : exportRasterize(e)
ExportDownloaded == \E e \in 1..MaxExports : exportDownloaded(e)
ExportNoData == \E e \in 1..MaxExports : exportNoData(e)
ExportThrew == \E e \in 1..MaxExports : exportThrew(e)

ExportNext ==
    \/ ExportImage
    \/ ExportRasterize
    \/ ExportDownloaded
    \/ ExportNoData
    \/ ExportThrew

ExportInit == TextStart /\ VertIdle /\ HistIdle /\ FontIdle /\ CanvasIdle /\ ViewIdle /\ AskIdle /\ BlurIdle /\ Mounted /\ ScaleIdle

SpecExport == ExportInit /\ [][ExportNext]_vars

\* the step in which call e ends with the given outcome
Ended(e, outcome) ==
    /\ exports[e].pc = "blob"
    /\ exports'[e].pc = "free"
    /\ exports'[e].outcome = outcome

\* C8: when rasterization throws or rejects, the background colour is back at the
\* value it had when the export was started
C8_RestoredAfterThrow ==
    [][\A e \in 1..MaxExports :
          Ended(e, "throw") => backgroundColor' = exports[e].bgAtCall]_vars

\* C9: when rasterization returns no data, the background colour is back at the value
\* it had when the export was started, no download is triggered and nothing else changes
C9_NoDataRestores ==
    [][\A e \in 1..MaxExports :
          Ended(e, "null") =>
             /\ backgroundColor' = exports[e].bgAtCall
             /\ downloads' = downloads
             /\ UNCHANGED <<canvasDims, backgroundImage, textVars>>]_vars

---------------------------------------------------------------------------
(* Image loading: overlapping loadLocalImage calls *)

LoadLocalImage == \E file \in Files : loadLocalImage(file)
ImageRead == \E i \in 1..MaxFiles : imageRead(i)
ImageDecoded == \E i \in 1..MaxFiles : imageDecoded(i)
BackgroundCreated == \E i \in 1..MaxFiles : backgroundCreated(i)
ImageLoadRejected == \E i \in 1..MaxFiles : imageLoadRejected(i)

ImageNext ==
    \/ LoadLocalImage
    \/ ImageRead
    \/ ImageDecoded
    \/ BackgroundCreated
    \/ ImageLoadRejected
    \/ AddText

ImageInit == TextIdle /\ VertIdle /\ HistIdle /\ FontIdle /\ CanvasIdle /\ ViewIdle /\ AskIdle /\ BlurIdle /\ Mounted /\ ScaleIdle

SpecImage == ImageInit /\ [][ImageNext]_vars

\* C10: once the loadLocalImage calls made have all completed, the canvas dimensions,
\* the background image and the image metadata come from the same image
C10_SameImage ==
    (/\ \A i \in 1..MaxFiles : imgLoads[i].pc = "free"
     /\ ~loadFailed
     /\ imgCalls >= 2)
    => (canvasDims = Dims(image.id) /\ backgroundImage = image.id)

---------------------------------------------------------------------------
(* The viewport: keys, pointer, wheel and zoom buttons on a loaded image *)

OnWheel == \E f \in WheelFactors : onWheel(f)
ZoomButton == \E f \in {Ratio(10, 11), Ratio(11, 10)} : zoomButton(f)
OnPointerDown == \E button \in 0..2, pointerType \in {"mouse", "touch"}, at \in Point :
                    onPointerDown(button, pointerType, at)
OnPointerMove == \E at \in Point : onPointerMove(at)

ViewNext ==
    \/ OnWheel
    \/ ZoomButton
    \/ onKeyDownSpace
    \/ onKeyUpSpace
    \/ OnPointerDown
    \/ OnPointerMove
    \/ onPointerUp
    \/ onBlur
    \/ spaceReleasedAway
    \/ pointerLost

ViewInit == TextStart /\ VertIdle /\ HistIdle /\ FontIdle /\ CanvasIdle /\ ViewIdle /\ AskIdle /\ BlurIdle /\ Mounted /\ ScaleIdle

SpecView == ViewInit /\ [][ViewNext]_vars

\* C11: pan is active only while the zoom factor is above 1
C11_PanOnlyZoomed == panState.active => previewZoom.v > ONE

\* C12: after pointer-up, window blur, or loss or cancellation of the panning
\* pointer, pan is inactive
C12_StopEventsEndPan ==
    lastEvent \in {"pointerup", "blur", "pointercancel"} => ~panState.active

---------------------------------------------------------------------------
(* Zoom changes: wheel, buttons, ruler and direct requests *)

RulerPointerMove == \E f \in DragFactors : rulerPointerMove(f)
RulerKey == \E f \in {Ratio(20, 21), Ratio(21, 20)} : rulerKey(f)
RequestZoom == \E z \in ZoomRequests : requestZoom(z)

ZoomNext ==
    \/ OnWheel
    \/ ZoomButton
    \/ rulerPointerDown
    \/ RulerPointerMove
    \/ rulerPointerUp
    \/ rulerReset
    \/ RulerKey
    \/ RequestZoom

SpecZoom == ViewInit /\ [][ZoomNext]_vars

\* C13 as stated: the stored zoom is finite and > 0; a finite positive request is
\* stored as is, every other request is replaced by the minimal positive value
C13_FallbackIsMinimal ==
    /\ isFinite(previewZoom) /\ previewZoom.v > 0
    /\ zoomAsk.made => previewZoom = MinimalZoom(zoomAsk.value)

\* C13 amended: the stored zoom is finite and > 0; a finite positive request is
\* stored as is, a non-finite one is replaced by 1 and a non-positive one by the
\* minimal positive value
C13_ZoomStored ==
    /\ isFinite(previewZoom) /\ previewZoom.v > 0
    /\ zoomAsk.made =>
          previewZoom = IF ~isFinite(zoomAsk.value) THEN Num(ONE)
                        ELSE IF zoomAsk.value.v > 0 THEN zoomAsk.value
                        ELSE MIN_VALUE

C13_Witness ==
    /\ zoomAsk.made
    /\ ~isFinite(zoomAsk.value)
    /\ previewZoom = Num(ONE)

---------------------------------------------------------------------------
(* Stroke styling of the selected annotation *)

AddPlaceholder == addText(<<"A">>, "#000000", NoKey)

ApplyStrokeStyle ==
    \E enabled \in BOOLEAN, style \in StrokeStyles, width \in WidthInputs :
        applyStrokeStyle(enabled, style, "#fff", width)

StrokeNext ==
    \/ AddPlaceholder
    \/ ApplyStrokeStyle
    \/ selectObjects
    \/ clearSelection

SpecStroke == ViewInit /\ [][StrokeNext]_vars

\* the step is a call of applyStrokeStyle with an annotation selected
StrokeStep == strokeAsk'.tick # strokeAsk.tick /\ ActiveText # 0

\* C14: with W = clamp(round(w), 1, 32), the selected annotation has after
\* setStrokeStyle: outline -> stroke width W, no shadow, stroke first; shadow -> no
\* stroke, blur max(4, round(3.2 W)), fill first; hybrid -> stroke width
\* max(1, round(0.6 W)), blur max(2, round(1.8 W + 1)), stroke first; disabled ->
\* neither stroke nor shadow
C14_StrokeStyleApplied ==
    [][StrokeStep =>
        LET o == objs'[ActiveText]
            r == (strokeAsk'.width + 5) \div 10
            W == IF r < 1 THEN 1 ELSE IF r > 32 THEN 32 ELSE r
        IN  IF ~strokeAsk'.enabled
              THEN o.stroke = Null /\ o.strokeWidth = 0 /\ ~o.shadow.set
            ELSE IF strokeAsk'.style = "outline"
              THEN /\ o.stroke = strokeAsk'.color /\ o.strokeWidth = W
                   /\ ~o.shadow.set
                   /\ o.paintFirst = "stroke"
            ELSE IF strokeAsk'.style = "shadow"
              THEN /\ o.stroke = Null /\ o.strokeWidth = 0
                   /\ o.shadow.set
                   /\ o.shadow.blur = Max(4, (32 * W + 5) \div 10)
                   /\ o.paintFirst = "fill"
            ELSE /\ o.stroke = strokeAsk'.color
                 /\ o.strokeWidth = Max(1, (6 * W + 5) \div 10)
                 /\ o.shadow.set
                 /\ o.shadow.blur = Max(2, (18 * W + 10 + 5) \div 10)
                 /\ o.paintFirst = "stroke"]_vars

\* the scenario: hybrid with width 10 gives stroke width 6, blur 19, stroke first
C14_Witness ==
    /\ ActiveText # 0
    /\ strokeAsk.enabled /\ strokeAsk.style = "hybrid" /\ strokeAsk.width = 100
    /\ objs[ActiveText].strokeWidth = 6
    /\ objs[ActiveText].shadow.blur = 19
    /\ objs[ActiveText].paintFirst = "stroke"

---------------------------------------------------------------------------
(* The shadow blur as a function of the stroke width *)

Blur ==
    /\ blurPc = "in"
    /\ blurOut' = getShadowBlur(10 * blurWidth, blurSoft)
    /\ blurPc' = "out"
    /\ UNCHANGED <<blurWidth, blurSoft, blurNext, vertVars, textVars, histVars, fontVars,
                   canvasVars, viewVars, askVars, mountVars, scaleVars>>

BlurOfNext ==
    /\ blurPc = "out"
    /\ blurWidth < STROKE_WIDTH_MAX
    /\ blurNext' = getShadowBlur(10 * (blurWidth + 1), blurSoft)
    /\ blurPc' = "both"
    /\ UNCHANGED <<blurWidth, blurSoft, blurOut, vertVars, textVars, histVars, fontVars,
                   canvasVars, viewVars, askVars, mountVars, scaleVars>>

BlurNext == Blur \/ BlurOfNext

BlurInit == BlurStart /\ VertIdle /\ TextIdle /\ HistIdle /\ FontIdle /\ CanvasIdle
            /\ ViewIdle /\ AskIdle /\ Mounted /\ ScaleIdle

SpecBlur == BlurInit /\ [][BlurNext]_vars

\* C15: for every integer width in [1, 32] the soft blur is at least 4 and the other
\* at least 2, and neither decreases from a width to the next
C15_BlurBounds ==
    /\ blurPc # "in" => blurOut >= (IF blurSoft THEN 4 ELSE 2)
    /\ blurPc = "both" => blurOut <= blurNext /\ blurNext >= (IF blurSoft THEN 4 ELSE 2)

C15_Witness ==
    /\ blurPc = "both"
    /\ blurSoft
    /\ blurWidth = 1
    /\ blurOut = 4
    /\ blurNext = 6

---------------------------------------------------------------------------
(* Creating annotations under an inherited style that the controls have changed *)

\* contents an annotation is created with: break-free, "ABC" among them
ContentInputs == {<<>>, <<"A">>, <<"A", "B", "C">>}

\* the weight and opacity controls and the font selector, one value each
StylePatches == {[fontWeight |-> 400], [opacity |-> 500], [fontFamily |-> "F"]}

applyTextScale(nextValue) ==
    LET nextScalePercent == Max(1, nextValue)
    IN  applyToActiveText([fontSize |-> BASE_TEXT_FONT_SIZE,
                           scaleX |-> 10 * nextScalePercent,
                           scaleY |-> 10 * nextScalePercent])

addPreset(presetKey) ==
    \E preset \in {q \in JX3_SCHOOL_PRESETS : q.key = presetKey} :
        addText(preset.label, preset.color, preset.key)

CreateAnnotation == \E t \in ContentInputs : addText(t, "#000000", NoKey)

AddPreset == addPreset("tian-ce")

ApplyStyle == \E patch \in StylePatches : applyToActiveText(patch)

ApplyTextScale == applyTextScale(200)

ApplySpacing == applyToActiveText([charSpacing |-> 100])

SetOrientation == \E vertical \in BOOLEAN : setActiveTextVertical(vertical)

CreateNext ==
    \/ CreateAnnotation
    \/ AddPreset
    \/ ApplyStyle
    \/ ApplyTextScale
    \/ ApplySpacing
    \/ SetOrientation
    \/ clearSelection

SpecCreate == TextInit /\ [][CreateNext]_vars

\* content holds one line per character of s, in order, with a single break between
\* two lines and none elsewhere
Stacked(content, s) ==
    /\ Len(content) = IF Len(s) = 0 THEN 0 ELSE 2 * Len(s) - 1
    /\ \A i \in 1..Len(s) : content[2 * i - 1] = s[i] /\ s[i] # LF
    /\ \A i \in 1..(Len(s) - 1) : content[2 * i] = LF

\* the step is a call of addText that passed its guard
AddTextStep == lastAdd'.op = "addText" /\ Len(objs') = Len(objs) + 1

\* the step switches the annotation created last, which addText made vertical, to
\* horizontal; SpecCreate removes no annotation and edits no content, so the
\* annotation created last is the last of objs and lastAdd.text is its content
SwitchStep ==
    /\ lastAdd.op = "addText" /\ lastAdd.vertical
    /\ ActiveText = Len(objs)
    /\ objs' # objs
    /\ objs[Len(objs)].vertical /\ ~objs'[Len(objs)].vertical

\* C16: an annotation created with a break-free s under a vertical inherited
\* orientation stores len(s) one-character lines separated by single breaks and is
\* centered; switched to horizontal it stores s itself and is left-aligned
C16_StackedThenFlat ==
    [][/\ AddTextStep /\ inherited.vertical =>
           /\ Stacked(objs'[Len(objs')].text, lastAdd'.text)
           /\ objs'[Len(objs')].textAlign = "center"
       /\ SwitchStep =>
           /\ objs'[Len(objs)].text = lastAdd.text
           /\ objs'[Len(objs)].textAlign = "left"]_vars

C16_Witness ==
    /\ lastAdd.op = "addText" /\ lastAdd.vertical
    /\ lastAdd.text = <<"A", "B", "C">>
    /\ ActiveText = Len(objs)
    /\ ~objs[Len(objs)].vertical
    /\ objs[Len(objs)].text = <<"A", "B", "C">>
    /\ objs[Len(objs)].textAlign = "left"

\* C17: addText with a canvas and an image adds exactly one annotation; its
\* orientation, family, weight, letter spacing, opacity and scales are those of the
\* inherited style at the call, its fill and its logical content are the arguments,
\* and it is the only selected object
C17_CreatedFromInherited ==
    [][AddTextStep =>
          LET it == objs'[Len(objs')]
          IN  /\ SubSeq(objs', 1, Len(objs)) = objs
              /\ it.vertical = inherited.vertical
              /\ it.fontFamily = inherited.fontFamily
              /\ it.fontWeight = inherited.fontWeight
              /\ it.charSpacing = inherited.charSpacing
              /\ it.opacity = inherited.opacity
              /\ it.scaleX = inherited.scaleX
              /\ it.scaleY = inherited.scaleY
              /\ it.fill = lastAdd'.fill
              /\ (IF it.vertical THEN fromVerticalText(it.text) ELSE it.text) = lastAdd'.text
              /\ sel' = {Len(objs')}]_vars

C17_Witness ==
    /\ lastAdd.op = "addText" /\ lastAdd.fill = "#EC4B2C"
    /\ Len(objs) = 2
    /\ sel = {2}
    /\ objs[2].fill = "#EC4B2C"
    /\ ~objs[2].vertical
    /\ objs[2].fontFamily = "F"
    /\ objs[2].fontWeight = 400
    /\ objs[2].charSpacing = 100
    /\ objs[2].opacity = 500
    /\ objs[2].scaleX = 2000

---------------------------------------------------------------------------
(* Handlers called before the canvas is mounted, before an image is loaded and
   without a selection *)

\* useFabricEditor.ts 160-200: the mount effect creates the canvas and stores it
mountCanvas ==
    /\ ~canvas
    /\ canvas' = TRUE
    /\ UNCHANGED <<vertVars, textVars, histVars, fontVars, canvasVars, viewVars, askVars,
                   blurVars, scaleVars>>

LoadFirstFile == loadLocalImage(1)

InstantiateSnapshot == addTextFromSnapshot(Snapshot(<<"A">>, TRUE, 0))

ExportPng == exportImage("png")

ApplyPatch == applyToActiveText([text |-> <<"B">>])

SetHorizontal == setActiveTextVertical(FALSE)

GuardNext ==
    \/ mountCanvas
    \/ LoadFirstFile
    \/ ImageRead
    \/ ImageDecoded
    \/ BackgroundCreated
    \/ AddPlaceholder
    \/ InstantiateSnapshot
    \/ ExportPng
    \/ ApplyPatch
    \/ SetHorizontal
    \/ deleteActiveObject
    \/ selectObjects
    \/ clearSelection

GuardInit == TextIdle /\ VertIdle /\ HistIdle /\ FontIdle /\ CanvasIdle /\ ViewIdle
             /\ AskIdle /\ BlurIdle /\ canvas = FALSE /\ ScaleIdle

SpecGuards == GuardInit /\ [][GuardNext]_vars

\* no canvas, or no loaded image
NoCanvasOrImage == ~canvas \/ image = NoImage

\* the annotations, the selection, the inherited style, the canvas background and
\* the viewport
GuardedState ==
    <<objs, sel, inherited, backgroundColor, backgroundImage, canvasDims, previewZoom,
      scroll>>

\* C18: addText, addTextFromSnapshot and exportImage without canvas or image, and
\* applyToActiveText, setActiveTextVertical and deleteActiveObject without a (text)
\* selection, change neither the annotations, the selection, the inherited style, the
\* background nor the viewport: a call that returns at its guard leaves them alone,
\* and in these states no annotation is created, no export started, no annotation
\* edited and none removed
C18_GuardedCallsDoNothing ==
    [][/\ skipped' # skipped => UNCHANGED GuardedState
       /\ NoCanvasOrImage =>
            /\ Len(objs') <= Len(objs)
            /\ exports' = exports /\ exportCalls' = exportCalls
       /\ ActiveText = 0 =>
            /\ Len(objs') = Len(objs) => objs' = objs
            /\ sel' = sel => inherited' = inherited
       /\ sel = {} => Len(objs') >= Len(objs) \/ imgLoads' # imgLoads]_vars

C18_Witness ==
    /\ canvas /\ image = NoImage
    /\ skipped = "addTextFromSnapshot"
    /\ objs = <<>> /\ sel = {}
    /\ exportCalls = 0

---------------------------------------------------------------------------
(* Snapshots of annotations the editor can hold, instantiated again *)

ApplyFill == applyToActiveText([fill |-> "#ec4b2c"])

ApplyShadowStroke == applyStrokeStyle(TRUE, "shadow", "#ffffff", 100)

\* getAllTextSnapshots, and one of its snapshots handed to addTextFromSnapshot
InstantiateCaptured ==
    \E i \in 1..Len(objs) : addTextFromSnapshot(readSnapshotFromText(objs[i]))

SnapshotNext ==
    \/ AddPlaceholder
    \/ AddPreset
    \/ ApplyFill
    \/ ApplySpacing
    \/ ApplyTextScale
    \/ ApplyShadowStroke
    \/ SetOrientation
    \/ InstantiateCaptured
    \/ clearSelection

SpecSnapshot == TextInit /\ [][SnapshotNext]_vars

\* the step is a call of addTextFromSnapshot that passed its guard
SnapshotStep == lastAdd'.op = "addTextFromSnapshot" /\ Len(objs') = Len(objs) + 1

\* C19: the annotation addTextFromSnapshot builds from the snapshot of a reachable
\* annotation has that very snapshot, field by field, and is the selection
C19_SnapshotRoundTrip ==
    [][SnapshotStep =>
          /\ readSnapshotFromText(objs'[Len(objs')]) = lastAdd'.snapshot
          /\ sel' = {Len(objs')}]_vars

C19_Witness ==
    /\ lastAdd.op = "addTextFromSnapshot"
    /\ Len(objs) = 2 /\ sel = {2}
    /\ lastAdd.snapshot = readSnapshotFromText(objs[1])
    /\ readSnapshotFromText(objs[2]) = lastAdd.snapshot
    /\ objs[2].vertical /\ objs[2].presetKey = "tian-ce" /\ objs[2].shadow.set
    /\ objs[2].charSpacing = 100 /\ objs[2].scaleX = 2000

---------------------------------------------------------------------------
(* The style history fed with the snapshots of the canvas *)

ApplyBlack == applyToActiveText([fill |-> "#000000"])

\* getAllTextSnapshots
getAllTextSnapshots ==
    IF ~canvas THEN <<>> ELSE [i \in 1..Len(objs) |-> readSnapshotFromText(objs[i])]

CaptureCanvas == captureCurrentIds(getAllTextSnapshots)

\* the delete button of a history entry
RemoveHeld ==
    \E i \in 1..Len(idHistory) : removeHistoryItem(buildSnapshotKey(idHistory[i]))

CaptureNext ==
    \/ AddPlaceholder
    \/ AddPreset
    \/ ApplyPatch
    \/ ApplyBlack
    \/ selectObjects
    \/ CaptureCanvas
    \/ RemoveHeld

SpecCapture == TextInit /\ [][CaptureNext]_vars

\* the snapshots a list holds
Entries(list) == {list[i] : i \in 1..Len(list)}

\* C20: history entries are told apart by all their fields, the preset key included:
\* a merge that does not reach the limit keeps every snapshot it is given and every
\* one it held, and a removal removes no more than one entry
C20_StructuralEntries ==
    [][/\ lastMerge'.made /\ Len(idHistory) + Len(lastMerge'.incoming) <= HISTORY_LIMIT =>
            Entries(lastMerge'.incoming) \cup Entries(idHistory) \subseteq Entries(idHistory')
       /\ lastMerge'.removed /\ idHistory' # idHistory =>
            Cardinality(Entries(idHistory) \ Entries(idHistory')) = 1]_vars

---------------------------------------------------------------------------
(* The order of the history after a merge *)

\* the snapshots of incoming, from position i on, that are neither in current nor
\* earlier in incoming, in the order of incoming; snapshots are compared field by field
RECURSIVE NewlyUnique(_, _, _)
NewlyUnique(current, incoming, i) ==
    IF i > Len(incoming) THEN <<>>
    ELSE (IF incoming[i] \in Entries(current) \cup {incoming[j] : j \in 1..(i - 1)}
            THEN <<>> ELSE <<incoming[i]>>)
         \o NewlyUnique(current, incoming, i + 1)

\* the step is a call of captureCurrentIds
MergeStep == histOps' = histOps + 1 /\ lastMerge'.made

\* C21: when incoming holds snapshots that current does not, the merge is those
\* snapshots in their incoming order, then current in its order, cut to 40 entries
C21_NewestFirst ==
    [][MergeStep /\ NewlyUnique(idHistory, lastMerge'.incoming, 1) # <<>> =>
          idHistory' = Slice(NewlyUnique(idHistory, lastMerge'.incoming, 1) \o idHistory,
                             HISTORY_LIMIT)]_vars

---------------------------------------------------------------------------
(* The display scale over container sizes, image sizes and zooms *)

ScaleNext == fitScaleMemo \/ displayScaleMemo \/ loadScales

ScaleInit == ScaleStart /\ VertIdle /\ TextIdle /\ HistIdle /\ FontIdle /\ CanvasIdle
             /\ ViewIdle /\ AskIdle /\ BlurIdle /\ Mounted

SpecScale == ScaleInit /\ [][ScaleNext]_vars

\* min(containerW / imageW, containerH / imageH), and 1 when that is above 1
CappedFit ==
    LET ratio == MathMin(Quotient(scaleIn.cw, scaleIn.iw), Quotient(scaleIn.ch, scaleIn.ih))
    IN  IF NumLeq(ratio, Num(ONE)) THEN ratio ELSE Num(ONE)

PositiveSizes == scaleIn.cw > 0 /\ scaleIn.ch > 0

\* C22: for positive container, image and zoom, fitScale is the smaller of the two
\* ratios, at most 1, and displayScale = fitScale * zoom is finite and above 0
C22_ScalesPositive ==
    PositiveSizes =>
        /\ scalePc # "in" => scaleOut.fit = CappedFit
        /\ scalePc \in {"display", "load"} =>
              isFinite(scaleOut.display) /\ scaleOut.display.v > 0
        /\ scalePc = "load" =>
              /\ scaleOut.nextFit = CappedFit
              /\ isFinite(scaleOut.nextDisplay) /\ scaleOut.nextDisplay.v > 0

---------------------------------------------------------------------------
(* A loadLocalImage call that fails *)

\* canvas dimensions, background image and metadata describe one image, or none
SameImage == canvasDims = Dims(image.id) /\ backgroundImage = image.id

\* call i is the only loadLocalImage in flight
OnlyLoad(i) ==
    /\ imgLoads[i].pc # "free"
    /\ \A j \in 1..MaxFiles : j # i => imgLoads[j].pc = "free"

\* the step ends call i, the only one in flight, without a new background: one of
\* its awaits was rejected
FailedStep(i) ==
    /\ OnlyLoad(i)
    /\ imgLoads'[i].pc = "free"
    /\ backgroundImage' = backgroundImage
    /\ image' = image

\* C23: a loadLocalImage that fails at the file read, at the decode or at the creation
\* of the background leaves canvas dimensions, background image and metadata
\* describing the same image as before the call, or all none
C23_FailedLoadConsistent ==
    [][\A i \in 1..MaxFiles : FailedStep(i) /\ loadFailed' => SameImage']_vars


---------------------------------------------------------------------------
(* The export button: handleExport *)

\* handleExport: captureCurrentIds() and then exportImage(exportFormat); the call of
\* exportImage runs up to its first await in the same task
handleExport(format) ==
    /\ histOps < MaxHistOps
    /\ histOps' = histOps + 1
    /\ idHistory' = mergeUniqueSnapshots(idHistory, getAllTextSnapshots)
    /\ stored' = Persisted(idHistory')
    /\ lastMerge' = [made |-> TRUE, incoming |-> getAllTextSnapshots,
                     held |-> AllHeld(getAllTextSnapshots, idHistory), removed |-> FALSE]
    /\ IF ~HasCanvasAndImage
         THEN /\ skipped' = "exportImage"
              /\ UNCHANGED canvasVars
         ELSE /\ exportCalls < MaxExportCalls
              /\ \E e \in 1..MaxExports :
                    /\ exports[e].pc = "free"
                    /\ \A j \in 1..(e - 1) : exports[j].pc # "free"
                    /\ exports' = [exports EXCEPT ![e] =
                          [pc |-> "fonts", format |-> format, prevBg |-> Transparent,
                           bgAtCall |-> backgroundColor, outcome |-> "none"]]
              /\ exportCalls' = exportCalls + 1
              /\ UNCHANGED <<backgroundColor, canvasDims, backgroundImage, imgLoads,
                             imgCalls, loadFailed, downloads, skipped>>
    /\ UNCHANGED <<storageThrows, vertVars, textVars, fontVars, viewVars, strokeAsk,
                   lastAdd, blurVars, mountVars, scaleVars>>

HandleExport == \E format \in Formats : handleExport(format)

HandleExportNext ==
    \/ AddPlaceholder
    \/ AddPreset
    \/ HandleExport
    \/ ExportRasterize
    \/ ExportDownloaded
    \/ ExportNoData
    \/ ExportThrew

SpecHandleExport == ExportInit /\ [][HandleExportNext]_vars

\* the step in which handleExport starts call e
Started(e) ==
    /\ exports[e].pc = "free"
    /\ exports'[e].pc = "fonts"

\* the step in which call e passes document.fonts.ready and starts to rasterize
Rasterizing(e) ==
    /\ exports[e].pc = "fonts"
    /\ exports'[e].pc = "blob"

\* C24: an export merges the canvas snapshots into the history when it is started and
\* touches neither the background nor the downloads then; a jpeg export has the white
\* background when its rasterization starts; and a download is triggered only by a
\* call that was rasterizing, in a step that leaves the background at the value it
\* had when that call was started
C24_ExportOrder ==
    [][/\ \A e \in 1..MaxExports :
             /\ Started(e) =>
                   /\ idHistory' = mergeUniqueSnapshots(idHistory, getAllTextSnapshots)
                   /\ backgroundColor' = backgroundColor
                   /\ downloads' = downloads
             /\ Rasterizing(e) =>
                   /\ exports[e].format = "jpeg" => backgroundColor' = White
                   /\ downloads' = downloads
       /\ downloads' # downloads =>
             \E e \in 1..MaxExports :
                /\ Ended(e, "blob")
                /\ backgroundColor' = exports[e].bgAtCall]_vars


---------------------------------------------------------------------------
(* Image replacement *)

\* the step in which call i of loadLocalImage sets the new background image and the
\* new image metadata
Established(i) ==
    /\ imgLoads[i].pc = "create"
    /\ imgLoads'[i].pc = "free"
    /\ backgroundImage' = imgLoads[i].file
    /\ image' = [id |-> imgLoads[i].file]
    /\ <<image, backgroundImage>>' # <<image, backgroundImage>>

\* C25: when loadLocalImage sets the new background and metadata, the canvas holds no
\* annotation, every one there having been created under the previous image, and the
\* selection is empty
C25_FreshCanvas ==
    [][\A i \in 1..MaxFiles : Established(i) => objs' = <<>> /\ sel' = {}]_vars


---------------------------------------------------------------------------
(* Patches of the selected annotation *)

\* patches of the text field, the colour picker (a preset colour in lower case and a
\* colour of no preset), the spacing slider and the weight slider
PatchInputs ==
    {[text |-> <<"B">>], [fill |-> "#ec4b2c"], [fill |-> "#123456"],
     [charSpacing |-> 100], [fontWeight |-> 400]}

ApplyPatchOf == \E patch \in PatchInputs : applyToActiveText(patch)

SetHorizontalText == setActiveTextVertical(FALSE)

PatchNext ==
    \/ AddPlaceholder
    \/ ApplyPatchOf
    \/ SetHorizontalText
    \/ selectObjects
    \/ clearSelection

SpecPatch == TextInit /\ [][PatchNext]_vars

\* C26: applyToActiveText changes no annotation but the selected text annotation, and
\* with an empty selection or a selection of several objects it changes neither the
\* annotations nor the inherited style
C26_OnlySelectedChanges ==
    [][\A patch \in PatchInputs :
          applyToActiveText(patch) =>
             /\ Len(objs') = Len(objs)
             /\ \A i \in 1..Len(objs) : i # ActiveText => objs'[i] = objs[i]
             /\ ActiveText = 0 => objs' = objs /\ inherited' = inherited]_vars

C26_Witness ==
    /\ Len(objs) = 2
    /\ sel = {1}
    /\ objs[1].text = <<"B">> /\ objs[1].fill = "#123456" /\ objs[1].fontWeight = 400
    /\ objs[2].text = <<"A">> /\ objs[2].fill = "#000000" /\ objs[2].fontWeight = 700
    /\ objs[2].vertical /\ objs[2].presetKey = NoKey
    /\ skipped = "applyToActiveText"

\* the preset whose colour is the fill but for letter case
Matched(fill) == {q \in JX3_SCHOOL_PRESETS : toLowerCase(q.color) = toLowerCase(fill)}

---------------------------------------------------------------------------
(* The inherited style after a patch *)

\* the patches SpecCreate applies: the weight and opacity sliders, the font selector,
\* the spacing slider and the size slider
CreatePatches ==
    StylePatches \cup
       {[charSpacing |-> 100],
        [fontSize |-> BASE_TEXT_FONT_SIZE, scaleX |-> 2000, scaleY |-> 2000]}

\* C27: after applyToActiveText has patched the selected annotation with any of font
\* family, size, weight, letter spacing, opacity and the two scales, the inherited
\* style has the patched value in each of these fields and its other fields are as
\* before
C27_InheritedFollowsPatch ==
    [][\A patch \in CreatePatches :
          applyToActiveText(patch) /\ ActiveText # 0 =>
             \A k \in DOMAIN inherited :
                inherited'[k] = IF k \in DOMAIN patch THEN patch[k] ELSE inherited[k]]_vars

C27_Witness ==
    /\ ActiveText # 0
    /\ objs[ActiveText].scaleX = 2000 /\ inherited.scaleX = 2000
    /\ objs[ActiveText].scaleY = 2000 /\ inherited.scaleY = 2000
    /\ objs[ActiveText].fontWeight = 400 /\ inherited.fontWeight = 400
    /\ objs[ActiveText].opacity = 500 /\ inherited.opacity = 500
    /\ objs[ActiveText].fontFamily = "F" /\ inherited.fontFamily = "F"
    /\ objs[ActiveText].charSpacing = 100 /\ inherited.charSpacing = 100
    /\ inherited.fontSize = BASE_TEXT_FONT_SIZE


---------------------------------------------------------------------------
(* The pan gesture *)

PanNext ==
    \/ ZoomButton
    \/ onKeyDownSpace
    \/ onKeyUpSpace
    \/ OnPointerDown
    \/ OnPointerMove
    \/ onPointerUp
    \/ onBlur
    \/ spaceReleasedAway
    \/ AddPlaceholder
    \/ clearSelection

SpecPan == ViewInit /\ [][PanNext]_vars

\* the pan state of a gesture engaged at a point
Engaged(at) ==
    [active |-> TRUE, startX |-> at.x, startY |-> at.y,
     scrollLeft |-> scroll.left, scrollTop |-> scroll.top]

\* C29: a pointer-down engages the pan exactly when the zoom is above 1 and it is of a
\* button other than the primary one, or of the primary button with the Space key
\* held, or the primary contact of a touch with no annotation selected; any other
\* pointer-down leaves the pan state as it is
C29_PanEngagement ==
    [][\A button \in 0..2, pointerType \in {"mouse", "touch"}, at \in Point :
          onPointerDown(button, pointerType, at) =>
             IF /\ previewZoom.v > ONE
                /\ \/ button # 0
                   \/ button = 0 /\ spaceHeld
                   \/ pointerType = "touch" /\ button = 0 /\ sel = {}
               THEN panState' = Engaged(at)
               ELSE panState' = panState]_vars

\* scrollLeft and scrollTop as the browser keeps them, within the scrollable range
ScrollRange(n) == clamp(n, 0, MaxCoord)

\* C30: a pointer-move during a pan puts both scroll offsets at the offset recorded at
\* the engagement minus the pointer's distance from the point recorded then, kept
\* within the scrollable range; a pointer-move without a pan leaves them
C30_ScrollFromOrigin ==
    [][\A at \in Point :
          onPointerMove(at) =>
             IF panState.active
               THEN /\ scroll'.left = ScrollRange(panState.scrollLeft - (at.x - panState.startX))
                    /\ scroll'.top = ScrollRange(panState.scrollTop - (at.y - panState.startY))
               ELSE scroll' = scroll]_vars

\* the moved pan has left the offsets recorded at its engagement
C30_Witness ==
    /\ panState.active
    /\ lastEvent = "pointermove"
    /\ panState.scrollLeft = 1 /\ panState.startX = 0
    /\ scroll.left = 0 /\ scroll.top = 1

\* C30 as stated: the offsets are the difference itself
C30_ExactDifference ==
    [][\A at \in Point :
          onPointerMove(at) =>
             IF panState.active
               THEN /\ scroll'.left = panState.scrollLeft - (at.x - panState.startX)
                    /\ scroll'.top = panState.scrollTop - (at.y - panState.startY)
               ELSE scroll' = scroll]_vars


---------------------------------------------------------------------------
(* The font of the selected annotation *)

\* the manifest is stored, nothing is cached and no load has been started
FontKnown ==
    /\ customFontsLoaded = TRUE
    /\ fontLoadStates = [f \in Fonts |-> Idle]
    /\ cached = [f \in Fonts |-> FALSE]
    /\ initWaiting = 0
    /\ hookFetch = "done"
    /\ eagerRan = FALSE
    /\ restores = [f \in Fonts |-> [match |-> 0, parse |-> 0]]
    /\ loads = [i \in 1..MaxLoads |-> FreeSlot]
    /\ loadingAll = FALSE
    /\ fetchStarted = [f \in Fonts |-> 0]
    /\ registered = [f \in Fonts |-> 0]

FontPatchNext ==
    \/ defaultFontEffect
    \/ SetActiveFontFamily
    \/ LoadProgress
    \/ LoadFetched
    \/ LoadRejected
    \/ LoadParsed
    \/ LoadResolved
    \/ AddPlaceholder
    \/ selectObjects
    \/ clearSelection

FontPatchInit ==
    TextStart /\ VertIdle /\ HistIdle /\ FontKnown /\ CanvasIdle /\ ViewIdle /\ AskIdle
       /\ BlurIdle /\ Mounted /\ ScaleIdle

SpecFontPatch == FontPatchInit /\ [][FontPatchNext]_vars

\* the step in which setActiveFontFamily starts a load in slot i
RequestedLoad(i) ==
    /\ loads[i].pc = "free"
    /\ loads'[i].pc = "fetch"
    /\ loads'[i].by = "setActive"

\* the step in which the load that setActiveFontFamily started in slot i fails
FailedLoad(i) ==
    /\ loads[i].by = "setActive"
    /\ loads[i].pc \in {"fetch", "parse"}
    /\ loads'[i].pc = "free"

\* C31: a load started by setActiveFontFamily touches neither the annotations nor the
\* inherited style when it is started, and when it fails the family's status is
\* error with progress 0 and annotations and inherited style are still untouched
C31_FailedLoadKeepsFont ==
    [][\A i \in 1..MaxLoads :
          /\ RequestedLoad(i) => objs' = objs /\ inherited' = inherited
          /\ FailedLoad(i) =>
                /\ fontLoadStates'[loads[i].family] = [status |-> "error", progress |-> 0]
                /\ objs' = objs
                /\ inherited' = inherited]_vars

C31_Witness ==
    /\ Status("F") = "error"
    /\ fontLoadStates["F"].progress = 0
    /\ fetchStarted["F"] = 1
    /\ ActiveText # 0
    /\ objs[ActiveText].fontFamily = DEFAULT_FONT_FAMILY
    /\ inherited.fontFamily = DEFAULT_FONT_FAMILY


---------------------------------------------------------------------------
(* Deleting the selection *)

OnKeyDownDelete == \E isEditing \in BOOLEAN : onKeyDownDelete(isEditing)

DeleteNext ==
    \/ AddText
    \/ AddPreset
    \/ selectObjects
    \/ clearSelection
    \/ deleteActiveObject
    \/ OnKeyDownDelete

SpecDelete == TextInit /\ [][DeleteNext]_vars

\* the annotations at the positions that are not selected, in their order
Unselected ==
    LET keep == (1..Len(objs)) \ sel
        at(k) == CHOOSE i \in keep : Cardinality({j \in keep : j < i}) = k - 1
    IN  [k \in 1..Cardinality(keep) |-> objs[at(k)]]

\* C32: the delete action, and the Delete key outside in-place editing, remove the
\* selected annotations and no other and leave the canvas selection and the store's
\* active object empty; with nothing selected nothing changes
C32_DeletesSelection ==
    [][deleteActiveObject \/ onKeyDownDelete(FALSE) =>
          IF sel = {}
            THEN UNCHANGED textVars
            ELSE /\ objs' = Unselected
                 /\ sel' = {}
                 /\ activeObject' = {}]_vars

\* of a preset annotation and a placeholder added after it, the placeholder is gone
C32_Witness ==
    /\ Len(objs) = 1
    /\ objs[1].presetKey = "tian-ce"
    /\ lastAdd.op = "addText" /\ lastAdd.presetKey = NoKey /\ lastAdd.text = <<"A">>
    /\ sel = {} /\ activeObject = {}
    /\ skipped = "deleteActiveObject"


---------------------------------------------------------------------------
(* The stroke of the annotation created next *)

\* the step is a call of applyStrokeStyle, whatever the selection
StrokeRequest == strokeAsk'.tick # strokeAsk.tick

\* C33: applyStrokeStyle keeps enabled, style, colour and the width clamped to 1..32
\* in the inherited style whether or not a text annotation is selected, and the
\* annotation addText creates next has the stroke colour, stroke width, shadow colour
\* and shadow blur, and for an enabled stroke the paint order, of createStrokePatch
\* for those arguments
C33_NextCarriesStroke ==
    [][/\ StrokeRequest =>
             LET r == (strokeAsk'.width + 5) \div 10
                 W == IF r < 1 THEN 1 ELSE IF r > 32 THEN 32 ELSE r
             IN  /\ inherited'.strokeEnabled = strokeAsk'.enabled
                 /\ inherited'.strokeStyle = strokeAsk'.style
                 /\ inherited'.strokeColor = strokeAsk'.color
                 /\ inherited'.strokeWidth = W
       /\ AddTextStep /\ strokeAsk.color # Null =>
             LET it == objs'[Len(objs')]
                 given == createStrokePatch(strokeAsk.enabled, strokeAsk.style,
                                            strokeAsk.color, strokeAsk.width)
             IN  /\ it.stroke = given.stroke
                 /\ it.strokeWidth = given.strokeWidth
                 /\ it.shadow.color = given.shadow.color
                 /\ it.shadow.blur = given.shadow.blur
                 /\ strokeAsk.enabled => it.paintFirst = given.paintFirst]_vars

\* the first annotation of the canvas, created after a request for the soft shadow of
\* width 32.5: no stroke, blur 102, fill first
C33_Witness ==
    /\ Len(objs) = 1
    /\ lastAdd.op = "addText"
    /\ strokeAsk.tick /\ strokeAsk.enabled
    /\ strokeAsk.style = "shadow" /\ strokeAsk.width = 325
    /\ inherited.strokeWidth = 32
    /\ objs[1].stroke = Null /\ objs[1].strokeWidth = 0
    /\ objs[1].shadow.color = "#fff" /\ objs[1].shadow.blur = 102
    /\ objs[1].paintFirst = "fill"


---------------------------------------------------------------------------
(* The end of a font load *)

LoadAbandoned == \E i \in 1..MaxLoads : loadAbandoned(i)

\* the request of slot i ends with one of its events, and the awaits after it end
LoadEnds(i) ==
    \/ loadFetched(i)
    \/ loadRejected(i)
    \/ loadAbandoned(i)
    \/ loadParsed(i)
    \/ loadResolved(i)

FontLiveNext ==
    \/ defaultFontEffect
    \/ HandleSelectFont
    \/ handleLoadAllFonts
    \/ SetActiveFontFamily
    \/ LoadProgress
    \/ LoadFetched
    \/ LoadRejected
    \/ LoadAbandoned
    \/ LoadParsed
    \/ LoadResolved

FontLiveInit ==
    TextIdle /\ VertIdle /\ HistIdle /\ FontKnown /\ CanvasIdle /\ ViewIdle /\ AskIdle
       /\ BlurIdle /\ Mounted /\ ScaleIdle

\* every request ends and every await after it ends
SpecFontLive ==
    /\ FontLiveInit
    /\ [][FontLiveNext]_vars
    /\ \A i \in 1..MaxLoads : WF_vars(LoadEnds(i))

\* C34: a family whose status is loading gets the status loaded or error
C34_LoadingEnds ==
    \A f \in Fonts : (Status(f) = "loading") ~> (Status(f) \in {"loaded", "error"})

---------------------------------------------------------------------------
(* The line height of vertical annotations *)

\* C35: every vertical annotation, however it was created and after any letter
\* spacing patch, has line height clamp(1.16 + charSpacing / 1000, 0.2, 10)
C35_VerticalLineHeight ==
    \A i \in 1..Len(objs) :
        objs[i].vertical => objs[i].lineHeight = getVerticalLineHeight(objs[i].charSpacing)

---------------------------------------------------------------------------
(* Export: overlapping exportImage calls whose rasterizations all return *)

ExportReturnNext ==
    \/ ExportImage
    \/ ExportRasterize
    \/ ExportDownloaded
    \/ ExportNoData

SpecExportReturn == ExportInit /\ [][ExportReturnNext]_vars

\* no exportImage call is in flight
AllCompleted == \A e \in 1..MaxExports : exports[e].pc = "free"

\* C36: once every overlapping exportImage call has completed, the background colour
\* is the one the canvas had before the first of them started; the canvas starts
\* transparent and only exports change the colour here
C36_OverlapRestores == AllCompleted => backgroundColor = Transparent

---------------------------------------------------------------------------
(* The progress recorded with each load status *)

\* C37: every family's progress is within 0..100, a loaded family's progress is 100
\* and a failed family's progress is 0
C37_ProgressByStatus ==
    \A f \in Fonts :
        /\ fontLoadStates[f].progress \in 0..100
        /\ Status(f) = "loaded" => fontLoadStates[f].progress = 100
        /\ Status(f) = "error" => fontLoadStates[f].progress = 0

\* one family has failed after its progress was reported and the other is loaded
C37_Witness ==
    \E f, g \in Fonts :
        /\ Status(f) = "error"
        /\ Status(g) = "loaded"
        /\ fetchStarted[f] > 0
        /\ fetchStarted[g] > 0

---------------------------------------------------------------------------
(* The store's active object and the canvas's *)

SelectionNext ==
    \/ AddPlaceholder
    \/ InstantiateSnapshot
    \/ deleteActiveObject
    \/ OnKeyDownDelete
    \/ selectObjects
    \/ clearSelection
    \/ LoadLocalImage
    \/ ImageRead
    \/ ImageDecoded
    \/ BackgroundCreated

SpecSelection == TextInit /\ [][SelectionNext]_vars

\* C38: the store's active object is the canvas's active object, and it is empty or
\* made of annotations present on the canvas
C38_ActiveObjectInSync ==
    /\ activeObject = sel
    /\ activeObject \subseteq 1..Len(objs)

\* an annotation is selected on a canvas that holds another one too
C38_Witness ==
    /\ Len(objs) = MaxObjs
    /\ Cardinality(activeObject) = 1
    /\ imgCalls > 0

---------------------------------------------------------------------------
(* The stored content of vertical annotations under edits *)

\* contents an in-place edit leaves behind: a break missing, doubled, leading, trailing
EditInputs == {<<"A", "B">>, <<"A", LF, LF, "B">>, <<LF, "A">>, <<"A", LF>>}

TextChanged == \E currentText \in EditInputs : handleTextChanged(currentText)

EditNext ==
    \/ AddText
    \/ ApplyText
    \/ SetOrientation
    \/ TextChanged
    \/ selectObjects
    \/ clearSelection

SpecEdit == TextInit /\ [][EditNext]_vars

\* content is in vertical form: one break between consecutive characters, none elsewhere
Canonical(content) ==
    /\ content = toVerticalText(fromVerticalText(content))
    /\ Stacked(content, fromVerticalText(content))

===========================================================================
